---- MODULE Spec2Model ----
(***************************************************************************)
(* A model of the readgo / readgo2 code-analysis library.                  *)
(*                                                                         *)
(*   SpecCycle   : readgo2 DefaultValidator.CheckCircularDependencies      *)
(*                 (buildGraph, detectCycle) over the package loader's     *)
(*                 output.                                                 *)
(*   SpecProject : readgo2 DefaultValidator.ValidateProject, one goroutine *)
(*                 per loaded package, the shared result behind mu.        *)
(*   SpecCache   : readgo Cache (cache.go), the sync.Map cache with a TTL, *)
(*                 used by concurrent callers.                             *)
(*   SpecAnalyze : readgo2 DefaultAnalyzer (analyzer.go), AnalyzePackage   *)
(*                 with its collecting goroutines and the Find functions,  *)
(*                 one call repeated on unchanged sources.                 *)
(*   SpecAnalyzeConcurrent : the same, and a second AnalyzePackage call    *)
(*                 running on the analyzer at the same time.               *)
(*   SpecRWCache : readgo Cache in its RWMutex variant: a map of types     *)
(*                 behind a sync.RWMutex, a hit counter and a TTL.         *)
(*   SpecCaches  : a client that holds one Cache, of either variant.       *)
(*   SpecRWCacheObserved : SpecRWCache beside a clock, with a record of    *)
(*                 when each key was stored and of the GetType calls that  *)
(*                 found their key.                                        *)
(*   SpecExtDeps : readgo2 DefaultValidator.ValidateExternalDependencies,  *)
(*                 checkDeps with one goroutine per import; SpecExtDepsFair*)
(*                 adds that every goroutine that can step does.           *)
(*   SpecTree    : readgo DefaultReader.GetFileTree over one directory     *)
(*                 tree, with include and exclude patterns.                *)
(*   SpecValidator : a client of the readgo2 validator that uses one of    *)
(*                 its operations: those of SpecFile, SpecCycle,           *)
(*                 SpecProject and SpecExtDeps, or ValidateDependencies.   *)
(*   SpecFile    : ValidateFile and ValidatePackage of the readgo2         *)
(*                 validator (validator.go) and of the readgo validator,   *)
(*                 called on the files of one directory.                   *)
(***************************************************************************)
EXTENDS Bags, FiniteSets, Integers, Sequences, TLC

VARIABLES
    Module,     \* pkg.Module of the loaded packages: its Path, or NoModule (nil)
    Imports,    \* packages.Package.Imports: package path -> set of imported package paths
    Syntax,     \* packages.Package.Syntax: package path -> files, each the list of its import declarations
    Errors,     \* packages.Package.Errors: package path -> list of loader error messages
    graph,      \* the adjacency map built by the last CheckCircularDependencies call
    vcall       \* the last CheckCircularDependencies call: its root, how it ended, what it
                \* returned, and the packages whose edges detectCycle ranged over

cycleVars == <<Module, Imports, Syntax, Errors, graph, vcall>>

VARIABLES
    level,      \* the level argument of the running ValidateProject call
    pkgs,       \* what packages.Load(cfg, "./...") returned to it
    main,       \* where the body of ValidateProject stands
    spawned,    \* how many iterations of its `for _, pkg := range pkgs` are done
    wg,         \* the counter of its sync.WaitGroup
    mu,         \* the holder of its sync.Mutex, or Unlocked
    plan,       \* goroutine -> the critical sections its run goes through, in order
    pc,         \* goroutine -> the critical section it is at and where in it
    snap,       \* goroutine -> the fields of result it has read inside its critical section
    result,     \* the shared *ValidationResult
    err         \* the error ValidateProject returned

projectVars == <<level, pkgs, main, spawned, wg, mu, plan, pc, snap, result, err>>

VARIABLES
    ttl,            \* Cache.ttl
    now,            \* what time.Now() returns
    typeCache,      \* Cache.typeCache: key -> CacheEntry
    packageCache,   \* Cache.packageCache
    fileCache,      \* Cache.fileCache
    deleting,       \* kind -> key -> the Get calls between their Load and their Delete of key
    stored,         \* kind -> key -> the entry of the last Set on key, while no Clear
                    \* came after it and its expiry time is still ahead
    ret             \* what the call that just returned handed back

cacheVars == <<ttl, now, typeCache, packageCache, fileCache, deleting, stored, ret>>

VARIABLES
    acall,          \* the analyzer call the client repeats
    amain,          \* where the body of the running AnalyzePackage stands
    analysis,       \* the *AnalysisResult it is filling (its `result`)
    aspawned,       \* how many collecting goroutines it has started
    awg,            \* the counter of its sync.WaitGroup
    amu,            \* the holder of its sync.Mutex, or Unlocked
    collectors,     \* goroutine -> what it collects and how far it is
    returned        \* what the calls made so far returned, in order

analyzeVars == <<acall, amain, analysis, aspawned, awg, amu, collectors, returned>>

VARIABLES
    tree,           \* the directory the file validators are pointed at: whether it
                    \* exists and the names of its entries
    fcall           \* the ValidateFile / ValidatePackage call that just returned, and what it returned

fileVars == <<tree, fcall>>

VARIABLES
    rttl,           \* Cache.ttl of the RWMutex variant
    types,          \* Cache.types: TypeCacheKey -> *TypeInfo
    cacheHits,      \* Cache.hits
    rwmu,           \* Cache.mu: the goroutine holding the write lock, those holding read locks
    callers         \* goroutine -> the Cache method it is in and how far it is

rwVars == <<rttl, types, cacheHits, rwmu, callers>>

VARIABLES
    peer        \* a second AnalyzePackage call running on the same analyzer at the
                \* same time: its own result, wg, mu and goroutines; <<>> without one

peerVars == <<peer>>

VARIABLES
    xload,      \* what packages.Load returned to ValidateExternalDependencies
    xmain,      \* where the body of ValidateExternalDependencies stands
    xvisited,   \* its map visited
    xwg,        \* the counter of its sync.WaitGroup
    xresult,    \* its result
    xerr,       \* the error it returned
    xtasks,     \* the checkDeps calls: the caller's own and one per goroutine started
    xexpanded   \* how many times each package has been expanded (not in the code)

extVars == <<xload, xmain, xvisited, xwg, xresult, xerr, xtasks, xexpanded>>

VARIABLES
    tcall       \* the last GetFileTree call: its root and options, the tree or error returned

treeVars == <<tcall>>

VARIABLES
    rnow,       \* the wall clock of the process the RWMutex Cache lives in
    storedAt,   \* TypeCacheKey -> the clock when SetType last stored it (not in the code)
    foundGets   \* how many GetType calls have returned found = true (not in the code)

observerVars == <<rnow, storedAt, foundGets>>

VARIABLES
    dcall       \* the last ValidateDependencies call: what the loader gave it, what it returned

depsVars == <<dcall>>

vars == <<cycleVars, projectVars, cacheVars, analyzeVars, fileVars, rwVars, peerVars, extVars, treeVars, observerVars, depsVars>>

outsideExt == <<cycleVars, projectVars, cacheVars, analyzeVars, fileVars, rwVars, peerVars, treeVars, observerVars, depsVars>>
outsideTree == <<cycleVars, projectVars, cacheVars, analyzeVars, fileVars, rwVars, peerVars, extVars, observerVars, depsVars>>
outsideObserved == <<cycleVars, projectVars, cacheVars, analyzeVars, fileVars, peerVars, extVars, treeVars, depsVars>>
outsideDeps == <<cycleVars, projectVars, cacheVars, analyzeVars, fileVars, rwVars, peerVars, extVars, treeVars, observerVars>>
outsideCycle == <<projectVars, cacheVars, analyzeVars, fileVars, rwVars, peerVars, extVars, treeVars, observerVars, depsVars>>
outsideProject == <<cycleVars, cacheVars, analyzeVars, fileVars, rwVars, peerVars, extVars, treeVars, observerVars, depsVars>>
outsideCache == <<cycleVars, projectVars, analyzeVars, fileVars, rwVars, peerVars, extVars, treeVars, observerVars, depsVars>>
outsideAnalyze == <<cycleVars, projectVars, cacheVars, fileVars, rwVars, peerVars, extVars, treeVars, observerVars, depsVars>>
outsideFile == <<cycleVars, projectVars, cacheVars, analyzeVars, rwVars, peerVars, extVars, treeVars, observerVars, depsVars>>
outsidePeer == <<cycleVars, projectVars, cacheVars, analyzeVars, fileVars, rwVars, extVars, treeVars, observerVars, depsVars>>
outsideRW == <<cycleVars, projectVars, cacheVars, analyzeVars, fileVars, peerVars, extVars, treeVars, observerVars, depsVars>>

\* no ValidateExternalDependencies call exists
ExtIdle ==
    /\ xload = <<>> /\ xmain = "idle" /\ xvisited = {} /\ xwg = 0 /\ xresult = <<>>
    /\ xerr = "" /\ xtasks = <<>> /\ xexpanded = <<>>

\* no GetFileTree call exists
TreeIdle == tcall = <<>>

\* the RWMutex cache is not observed: the clock stands, no store and no found GetType is on record
ObserverIdle == rnow = 0 /\ storedAt = <<>> /\ foundGets = 0

\* no ValidateDependencies call exists
DepsIdle == dcall = <<>>

\* no second AnalyzePackage call runs beside the one under study
PeerIdle == peer = <<>>

\* no Cache of the RWMutex variant exists
RWIdle == rttl = 0 /\ types = <<>> /\ cacheHits = 0 /\ rwmu = <<>> /\ callers = <<>>

\* no file validator has been called and no directory is set up for one
FileIdle == tree = <<>> /\ fcall = <<>>

\* no analyzer call exists
AnalyzeIdle ==
    /\ acall = <<>> /\ amain = "idle" /\ analysis = <<>> /\ aspawned = 0 /\ awg = 0 /\ amu = 0
    /\ collectors = <<>> /\ returned = <<>>

\* no Cache exists
CacheIdle ==
    /\ ttl = 0 /\ now = 0 /\ typeCache = <<>> /\ packageCache = <<>> /\ fileCache = <<>>
    /\ deleting = <<>> /\ stored = <<>> /\ ret = <<>>

\* no ValidateProject call exists
ProjectIdle ==
    /\ level = "" /\ pkgs = <<>> /\ main = "idle" /\ spawned = 0 /\ wg = 0 /\ mu = 0
    /\ plan = <<>> /\ pc = <<>> /\ snap = <<>> /\ result = <<>> /\ err = ""

-----------------------------------------------------------------------------
(* Bounds of the model.                                                    *)

\* how many departures from a plain module (see Deviations) one loaded project has
MaxDeviations == 1
\* how many loader errors one package carries at most
MaxPkgErrors == 2

-----------------------------------------------------------------------------
(* strings.HasPrefix, strings.Contains, strings.Trim(s, `"`), fmt.Sprintf  *)

HasPrefix(s, prefix) ==
    /\ Len(prefix) <= Len(s)
    /\ SubSeq(s, 1, Len(prefix)) = prefix

Contains(s, substr) ==
    \E i \in 1..(Len(s) - Len(substr) + 1) : SubSeq(s, i, i + Len(substr) - 1) = substr

\* an import declaration's Path.Value is the quoted literal
Quote(path) == "\"" \o path \o "\""

RECURSIVE TrimLeftQuote(_)
TrimLeftQuote(s) ==
    IF Len(s) > 0 /\ SubSeq(s, 1, 1) = "\"" THEN TrimLeftQuote(SubSeq(s, 2, Len(s))) ELSE s

RECURSIVE TrimRightQuote(_)
TrimRightQuote(s) ==
    IF Len(s) > 0 /\ SubSeq(s, Len(s), Len(s)) = "\"" THEN TrimRightQuote(SubSeq(s, 1, Len(s) - 1)) ELSE s

TrimQuotes(s) == TrimRightQuote(TrimLeftQuote(s))

\* fmt.Sprintf("%s -> %s", a, b)
EdgeString(a, b) == a \o " -> " \o b

-----------------------------------------------------------------------------
(* The loaded project: what packages.Load hands to the validator.          *)

ModulePath == "testproject"
NoModule == "<nil>"

Pkg1 == "testproject/pkg1"
Pkg2 == "testproject/pkg2"
Pkg3 == "testproject/pkg3"
\* a package of another module whose path begins with the characters of ModulePath
PrefixLib == "testproject2/lib"
GithubLib == "github.com/x/y"
StdLib == "fmt"

ModPkgs == {Pkg1, Pkg2, Pkg3}
OtherPkgs == {PrefixLib, GithubLib, StdLib}
AllPkgs == ModPkgs \cup OtherPkgs
\* the order in which gofmt lists import declarations
PkgOrder == <<StdLib, GithubLib, Pkg1, Pkg2, Pkg3, PrefixLib>>

\* the packages that really belong to the root package's module
InModule(p) == p \in ModPkgs

SetToSeq(S) == SelectSeq(PkgOrder, LAMBDA q : q \in S)

RECURSIVE Perms(_)
Perms(S) ==
    IF S = {} THEN {<<>>}
    ELSE UNION {{<<q>> \o t : t \in Perms(S \ {q})} : q \in S}

Range(s) == {s[i] : i \in 1..Len(s)}

\* Departures of a loaded project from "every package has one file whose
\* import declarations are exactly the intra-module packages of its Imports map":
\*   ext       pkg also imports a package outside the module (in its file and in the map)
\*   extraFile pkg has one more file with an import declaration of path that the
\*             loader's Imports map does not record on its account
\*   twoFiles  pkg has two more files, each with an import declaration of path
\*             that the loader's Imports map does not record on their account
\*   noSyntax  the loader delivered no syntax trees for pkg
\*   err       the loader reports n errors for pkg
\*   noModule  the packages carry no module information (Module is nil)
\* The three module packages are interchangeable and each is tried as the root
\* of a call, so the departures are placed on one of them.
DeviantPkg == "testproject/pkg1"

Deviations ==
    [kind : {"ext"}, pkg : {DeviantPkg}, path : {"testproject2/lib", "github.com/x/y", "fmt"}, n : {0}]
        \cup [kind : {"extraFile"}, pkg : {DeviantPkg},
              path : {"testproject/pkg2", "testproject/pkg3", "testproject2/lib"},
              n : {0}]
        \cup [kind : {"twoFiles"}, pkg : {DeviantPkg}, path : {"testproject/pkg2"}, n : {0}]
        \cup [kind : {"noSyntax"}, pkg : {DeviantPkg}, path : {""}, n : {0}]
        \cup [kind : {"err"}, pkg : {DeviantPkg}, path : {""}, n : 1..MaxPkgErrors]
        \cup [kind : {"noModule"}, pkg : {""}, path : {""}, n : {0}]

RECURSIVE SubsetsUpTo(_, _)
SubsetsUpTo(S, k) ==
    IF k = 0 THEN {{}}
    ELSE LET smaller == SubsetsUpTo(S, k - 1)
         IN smaller \cup {T \cup {d} : T \in smaller, d \in S}

DeviationSets == {D \in SubsetsUpTo(Deviations, MaxDeviations) :
                    \A d, e \in D : (d.kind = "err" /\ e.kind = "err" /\ d.pkg = e.pkg) => d = e}

IntraGraphs == {g \in [ModPkgs -> SUBSET ModPkgs] : \A p \in ModPkgs : p \notin g[p]}

MkImports(intra, D) ==
    [p \in AllPkgs |->
        IF p \in ModPkgs
        THEN intra[p] \cup {d.path : d \in {e \in D : e.kind = "ext" /\ e.pkg = p}}
        ELSE {}]

MkSyntax(intra, D) ==
    [p \in AllPkgs |->
        IF p \notin ModPkgs \/ \E d \in D : d.kind = "noSyntax" /\ d.pkg = p
        THEN <<>>
        ELSE LET mapped == MkImports(intra, D)[p]
                 extra == {d.path : d \in {e \in D : e.kind = "extraFile" /\ e.pkg = p}}
                 first == [i \in 1..Len(SetToSeq(mapped)) |-> Quote(SetToSeq(mapped)[i])]
                 more == [i \in 1..Len(SetToSeq(extra)) |-> <<Quote(SetToSeq(extra)[i])>>]
                 twice == {d.path : d \in {e \in D : e.kind = "twoFiles" /\ e.pkg = p}}
                 again == [i \in 1..Len(SetToSeq(twice)) |-> <<Quote(SetToSeq(twice)[i])>>]
             IN <<first>> \o more \o again \o again]

ErrorMessage(p, i) == "error " \o ToString(i) \o " in " \o p

MkErrors(D) ==
    [p \in AllPkgs |->
        LET ds == {d \in D : d.kind = "err" /\ d.pkg = p}
        IN IF ds = {} THEN <<>>
           ELSE LET d == CHOOSE e \in ds : TRUE
                IN [i \in 1..d.n |-> ErrorMessage(p, i)]]

MkModule(D) == IF \E d \in D : d.kind = "noModule" THEN NoModule ELSE ModulePath

-----------------------------------------------------------------------------
(* readgo2 DefaultValidator.CheckCircularDependencies                      *)

\* the pkgPath argument is a load pattern; pkgs[0] is the package it names
PatternOf(p) == "./" \o SubSeq(p, Len(ModulePath) + 2, Len(p))
Patterns == {PatternOf(p) : p \in ModPkgs}
Resolve(pkgPath) == CHOOSE p \in ModPkgs : PatternOf(p) = pkgPath

CompiledGoFiles(p) == Len(Syntax[p])

NewStats == [FilesChecked |-> 0, ErrorCount |-> 0, WarningCount |-> 0,
             TypeErrors |-> 0, SyntaxErrors |-> 0, CircularDeps |-> 0,
             UnusedImports |-> 0, UnusedVariables |-> 0]

NewResult == [Valid |-> TRUE, Errors |-> <<>>, Warnings |-> <<>>, Stats |-> NewStats,
              HasExternalDeps |-> FALSE, ExternalDeps |-> <<>>,
              HasCircularDeps |-> FALSE, CircularDeps |-> <<>>, Imports |-> <<>>]

ValidationError(code, message, file, details) ==
    [Level |-> "error", Code |-> code, Message |-> message, File |-> file, Details |-> details]

\* the test both validators apply to an import path to call it an external dependency
IsExternalDep(path) ==
    /\ ~HasPrefix(path, ".")
    /\ ~HasPrefix(path, "internal/")
    /\ (Contains(path, "golang.org/x/") \/ Contains(path, "github.com/"))

\* the "only packages of the project" test of buildGraph
IsProjectPath(path) == HasPrefix(path, Module)

\* all import declarations of a package's files, in file order, unquoted
RECURSIVE FlattenFiles(_)
FlattenFiles(files) ==
    IF files = <<>> THEN <<>>
    ELSE [i \in 1..Len(Head(files)) |-> TrimQuotes(Head(files)[i])] \o FlattenFiles(Tail(files))

\* the loop over the files' import declarations without its `found` test
MergeFileImportsUnchecked(deps, paths) == deps \o SelectSeq(paths, IsProjectPath)

\* the inner loop of buildGraph over the files' import declarations: append
\* each project path that deps does not hold yet
RECURSIVE MergeFileImports(_, _)
MergeFileImports(deps, paths) ==
    IF paths = <<>> THEN deps
    ELSE LET path == Head(paths)
         IN IF IsProjectPath(path) /\ path \notin Range(deps)
            THEN MergeFileImports(Append(deps, path), Tail(paths))
            ELSE MergeFileImports(deps, Tail(paths))

\* buildGraph(p): st = [graph, visited]; ord[p] is the order in which this run
\* iterates the map p.Imports
RECURSIVE buildGraph(_, _, _)
RECURSIVE buildGraphImports(_, _, _)
buildGraphImports(imps, ord, st) ==
    IF imps = <<>> THEN st
    ELSE LET imp == Head(imps)
         IN IF IsProjectPath(imp)
            THEN buildGraphImports(Tail(imps), ord, buildGraph(imp, ord, st))
            ELSE buildGraphImports(Tail(imps), ord, st)

buildGraph(p, ord, st) ==
    IF p \in st.visited THEN st
    ELSE LET st1 == [st EXCEPT !.visited = @ \cup {p}]
             st2 == buildGraphImports(ord[p], ord, st1)
             deps == SelectSeq(ord[p], IsProjectPath)
             merged == MergeFileImports(deps, FlattenFiles(Syntax[p]))
         IN [st2 EXCEPT !.graph = (p :> merged) @@ st2.graph]

\* graph[pkg] of a Go map: the zero value for a missing key
GraphGet(g, pkg) == IF pkg \in DOMAIN g THEN g[pkg] ELSE <<>>

\* the strings appended to result.CircularDeps for cycle = append(path, pkg)
CycleEdgesOpen(cycle) == [i \in 1..(Len(cycle) - 2) |-> EdgeString(cycle[i], cycle[i + 1])]
CycleEdges(cycle) == [i \in 1..(Len(cycle) - 1) |-> EdgeString(cycle[i], cycle[i + 1])]

\* visited[pkg] = true; stack[pkg] = true
EnterStackOnly(st, pkg) == [st EXCEPT !.stack = @ \cup {pkg}]
EnterVisitedOnly(st, pkg) == [st EXCEPT !.visited = @ \cup {pkg}]
Enter(st, pkg) == [st EXCEPT !.visited = @ \cup {pkg}, !.stack = @ \cup {pkg}]

\* stack[pkg] = false
LeaveStillOnStack(st, pkg) == st
Leave(st, pkg) == [st EXCEPT !.stack = @ \ {pkg}]

\* detectCycle(pkg, path): st = [visited, stack, CircularDeps], and ranged, the
\* packages whose `for _, dep := range graph[pkg]` loop has started, in order
\* (not in the code)
RECURSIVE detectCycle(_, _, _, _)
RECURSIVE detectCycleDeps(_, _, _, _)
detectCycleDeps(g, deps, path, st) ==
    IF deps = <<>> THEN [found |-> FALSE, st |-> st]
    ELSE LET r == detectCycle(g, Head(deps), path, st)
         IN IF r.found THEN r ELSE detectCycleDeps(g, Tail(deps), path, r.st)

detectCycle(g, pkg, path, st) ==
    IF pkg \in st.stack
    THEN [found |-> TRUE,
          st |-> [st EXCEPT !.CircularDeps = @ \o CycleEdges(Append(path, pkg))]]
    ELSE IF pkg \in st.visited
    THEN [found |-> FALSE, st |-> st]
    ELSE LET entered == Enter(st, pkg)
             st1 == [entered EXCEPT !.ranged = Append(@, pkg)]
             r == detectCycleDeps(g, GraphGet(g, pkg), Append(path, pkg), st1)
         IN IF r.found THEN r
            ELSE [found |-> FALSE, st |-> Leave(r.st, pkg)]

\* the de-duplication of result.Imports and result.ExternalDeps
RECURSIVE Unique(_, _)
Unique(s, seen) ==
    IF s = <<>> THEN <<>>
    ELSE IF Head(s) \in seen THEN Unique(Tail(s), seen)
    ELSE <<Head(s)>> \o Unique(Tail(s), seen \cup {Head(s)})

\* buildGraph dereferences pkg.Module at the first import it looks at
DerefsModule(root) == Imports[root] # {} \/ FlattenFiles(Syntax[root]) # <<>>

PkgErrorResultStillValid(pkgPath, errs) ==
    [NewResult EXCEPT !.Errors = [i \in 1..Len(errs) |->
                                     ValidationError("PKG_ERROR", errs[i], pkgPath, <<>>)]]
PkgErrorResult(pkgPath, errs) ==
    [NewResult EXCEPT !.Valid = FALSE,
                      !.Errors = [i \in 1..Len(errs) |->
                                     ValidationError("PKG_ERROR", errs[i], pkgPath, <<>>)]]

\* the maps visited and stack after their reset
DetectStart == [visited |-> {}, stack |-> {}, CircularDeps |-> <<>>, ranged |-> <<>>]

\* the part of CheckCircularDependencies after the graph is built
CycleResult(pkgPath, root, g, ord2) ==
    LET dc == detectCycle(g, root, <<>>, DetectStart)
        r1 == [NewResult EXCEPT !.CircularDeps = dc.st.CircularDeps]
        r2 == IF dc.found
              THEN [r1 EXCEPT !.HasCircularDeps = TRUE,
                              !.Valid = FALSE,
                              !.Stats.CircularDeps = @ + 1,
                              !.Errors = Append(@, ValidationError("CIRCULAR_DEP",
                                             "Circular dependency detected", pkgPath,
                                             r1.CircularDeps))]
              ELSE r1
        allImports == ord2 \o FlattenFiles(Syntax[root])
        external == SelectSeq(allImports, IsExternalDep)
        r3 == [r2 EXCEPT !.Imports = Unique(allImports, {}),
                         !.HasExternalDeps = external # <<>>,
                         !.ExternalDeps = Unique(external, {})]
    IN [r3 EXCEPT !.Stats.FilesChecked = CompiledGoFiles(root),
                  !.Stats.ErrorCount = Len(r3.Errors),
                  !.Stats.WarningCount = Len(r3.Warnings)]

NoGraph == <<>>

\* what one call does once packages.Load has returned pkgs[0]: [outcome, err, result, graph]
CheckCircularDependenciesCall(pkgPath, ord, ord2) ==
    LET root == Resolve(pkgPath)
    IN IF Len(Errors[root]) > 0
       THEN [outcome |-> "result", err |-> "nil",
             result |-> PkgErrorResult(pkgPath, Errors[root]), graph |-> NoGraph,
             ranged |-> <<>>]
       ELSE IF Module = NoModule /\ DerefsModule(root)
       THEN [outcome |-> "panic", err |-> "nil pointer dereference",
             result |-> NewResult, graph |-> NoGraph, ranged |-> <<>>]
       ELSE LET g == buildGraph(root, ord, [graph |-> NoGraph, visited |-> {}]).graph
            IN [outcome |-> "result", err |-> "nil",
                result |-> CycleResult(pkgPath, root, g, ord2), graph |-> g,
                ranged |-> detectCycle(g, root, <<>>, DetectStart).st.ranged]

NoCall == [op |-> "none", pkgPath |-> "", root |-> "", outcome |-> "none", err |-> "",
           result |-> NewResult, ranged |-> <<>>]

InitCycle ==
    /\ \E intra \in IntraGraphs, D \in DeviationSets :
          /\ Module = MkModule(D)
          /\ Imports = MkImports(intra, D)
          /\ Syntax = MkSyntax(intra, D)
          /\ Errors = MkErrors(D)
    /\ graph = NoGraph
    /\ vcall = NoCall
    /\ ProjectIdle
    /\ CacheIdle
    /\ AnalyzeIdle
    /\ FileIdle
    /\ RWIdle
    /\ PeerIdle
    /\ DepsIdle
    /\ ObserverIdle
    /\ TreeIdle
    /\ ExtIdle

\* the early returns: a nil context, a failing packages.Load, an empty package list
CheckCircularDependenciesFails ==
    /\ vcall.op = "none"
    /\ \E pkgPath \in Patterns,
          e \in {"nil context", "load package", "no package found"} :
          vcall' = [op |-> "CheckCircularDependencies", pkgPath |-> pkgPath,
                    root |-> "", outcome |-> "error", err |-> e, result |-> NewResult,
                    ranged |-> <<>>]
    /\ graph' = NoGraph
    /\ UNCHANGED <<Module, Imports, Syntax, Errors>>
    /\ UNCHANGED outsideCycle

\* a call whose load succeeds; o1, o2, o3 and ord2 are the orders in which this
\* run's range loops walk the Imports maps
CheckCircularDependencies ==
    /\ vcall.op = "none"
    /\ \E pkgPath \in Patterns :
       \E o1 \in Perms(Imports[Pkg1]), o2 \in Perms(Imports[Pkg2]), o3 \in Perms(Imports[Pkg3]) :
       \E ord2 \in Perms(Imports[Resolve(pkgPath)]) :
        LET ord == [p \in AllPkgs |->
                       IF p = Pkg1 THEN o1 ELSE IF p = Pkg2 THEN o2
                       ELSE IF p = Pkg3 THEN o3 ELSE SetToSeq(Imports[p])]
        IN \E c \in {CheckCircularDependenciesCall(pkgPath, ord, ord2)} :
           /\ vcall' = [op |-> "CheckCircularDependencies", pkgPath |-> pkgPath,
                        root |-> Resolve(pkgPath), outcome |-> c.outcome, err |-> c.err,
                        result |-> c.result, ranged |-> c.ranged]
           /\ graph' = c.graph
    /\ UNCHANGED <<Module, Imports, Syntax, Errors>>
    /\ UNCHANGED outsideCycle

\* the caller drops the result; the validator keeps nothing between calls
Return ==
    /\ vcall.op # "none"
    /\ vcall' = NoCall
    /\ graph' = NoGraph
    /\ UNCHANGED <<Module, Imports, Syntax, Errors>>
    /\ UNCHANGED outsideCycle

NextCycle ==
    \/ CheckCircularDependenciesFails
    \/ CheckCircularDependencies
    \/ Return

SpecCycle == InitCycle /\ [][NextCycle]_vars

-----------------------------------------------------------------------------
(* Graph notions the claims about CheckCircularDependencies are stated in. *)

Successors(g, n) == Range(GraphGet(g, n))
NodesOf(g) == DOMAIN g \cup UNION {Successors(g, n) : n \in DOMAIN g}

\* the nodes reachable from the set S by one or more edges of g
RECURSIVE ReachFrom(_, _, _)
ReachFrom(g, S, k) ==
    LET next == S \cup UNION {Successors(g, n) : n \in S}
    IN IF k = 0 \/ next = S THEN S ELSE ReachFrom(g, next, k - 1)
ReachPlus(g, n) == ReachFrom(g, Successors(g, n), Cardinality(NodesOf(g)))

OnCycle(g, n) == n \in ReachPlus(g, n)
\* g has a cycle that root can reach
CyclicFrom(g, root) == \E n \in {root} \cup ReachPlus(g, root) : OnCycle(g, n)

\* the imports written anywhere for a module package: loader map and file declarations
WrittenImports(p) == Imports[p] \cup Range(FlattenFiles(Syntax[p]))
\* the intra-module import graph of the loaded project
ModuleGraph == [p \in ModPkgs |-> SetToSeq(WrittenImports(p) \cap ModPkgs)]
ModuleGraphAcyclic == \A p \in ModPkgs : ~OnCycle(ModuleGraph, p)

Returned == vcall.op = "CheckCircularDependencies" /\ vcall.outcome = "result"
Codes(errs) == {errs[i].Code : i \in 1..Len(errs)}

NextInRing(p) == IF p = Pkg1 THEN Pkg2 ELSE IF p = Pkg2 THEN Pkg3 ELSE Pkg1

\* three single-file packages importing each other in the ring pkg1 -> pkg2 -> pkg3 -> pkg1
RingProject ==
    /\ Module = ModulePath
    /\ \A p \in ModPkgs :
          /\ Imports[p] = {NextInRing(p)}
          /\ Syntax[p] = << <<Quote(NextInRing(p))>> >>
          /\ Errors[p] = <<>>

\* C2: for the ring pkg1 -> pkg2 -> pkg3 -> pkg1 a call started from any of the
\* three packages returns HasCircularDeps = true and exactly the three ring
\* edges, in traversal order beginning at the start package.
C2_RingEdges ==
    (Returned /\ RingProject) =>
        LET a == vcall.root
            b == NextInRing(a)
            c == NextInRing(b)
        IN /\ vcall.result.HasCircularDeps
           /\ vcall.result.CircularDeps = <<EdgeString(a, b), EdgeString(b, c), EdgeString(c, a)>>

C2_Witness ==
    /\ Returned
    /\ RingProject
    /\ vcall.root = Pkg2
    /\ vcall.result.CircularDeps = <<"testproject/pkg2 -> testproject/pkg3",
                                     "testproject/pkg3 -> testproject/pkg1",
                                     "testproject/pkg1 -> testproject/pkg2">>

\* C3: for an acyclic intra-module import graph and any start package the
\* returned result has HasCircularDeps = false, an empty CircularDeps list and
\* no CIRCULAR_DEP error.
C3_AcyclicClean ==
    (Returned /\ ModuleGraphAcyclic) =>
        /\ ~vcall.result.HasCircularDeps
        /\ vcall.result.CircularDeps = <<>>
        /\ "CIRCULAR_DEP" \notin Codes(vcall.result.Errors)

\* an acyclic project in which the search meets an already finished package again
C3_Witness ==
    /\ Returned
    /\ ModuleGraphAcyclic
    /\ DOMAIN graph = ModPkgs
    /\ \E p \in ModPkgs : Len(GraphGet(graph, p)) >= 2
    /\ ~vcall.result.HasCircularDeps
    /\ vcall.result.Valid

\* the closed walks of g: a package, distinct packages after it, and the package again
ClosedWalks(g) ==
    {w \in UNION {{<<a>> \o m \o <<a>> : m \in UNION {Perms(M) : M \in SUBSET (NodesOf(g) \ {a})}} :
                  a \in NodesOf(g)} :
        \A i \in 1..(Len(w) - 1) : w[i + 1] \in Successors(g, w[i])}

\* C8: when the search meets a package that is on the DFS stack, CircularDeps is
\* exactly the cycle: the edges from that package's first occurrence on the DFS
\* path to the current package and the closing edge, and no edge of the path
\* that leads from the root to the cycle.
C8_OnlyCycleEdges ==
    (Returned /\ vcall.result.HasCircularDeps) =>
        \E w \in ClosedWalks(graph) : vcall.result.CircularDeps = CycleEdges(w)

\* C9: every edge A -> B of the built graph joins two packages of the root
\* package's module; no standard-library or third-party package is a node.
C9_IntraModuleOnly ==
    \A n \in NodesOf(graph) : InModule(n)

\* C10: when the loader reports errors for the root package the call returns a
\* nil error and a result with Valid = false and one PKG_ERROR per loader error;
\* no graph is built and no search runs: HasCircularDeps is false and
\* CircularDeps, Imports and ExternalDeps are empty.
C10_LoaderErrorsShortCircuit ==
    (vcall.op = "CheckCircularDependencies" /\ vcall.outcome # "error"
        /\ Errors[vcall.root] # <<>>) =>
        /\ vcall.outcome = "result"
        /\ vcall.err = "nil"
        /\ ~vcall.result.Valid
        /\ Len(vcall.result.Errors) = Len(Errors[vcall.root])
        /\ \A i \in 1..Len(vcall.result.Errors) :
              /\ vcall.result.Errors[i].Code = "PKG_ERROR"
              /\ vcall.result.Errors[i].Message = Errors[vcall.root][i]
        /\ graph = NoGraph
        /\ ~vcall.result.HasCircularDeps
        /\ vcall.result.CircularDeps = <<>>
        /\ vcall.result.Imports = <<>>
        /\ vcall.result.ExternalDeps = <<>>

\* a root with two loader errors that imports and lies on an import cycle
C10_Witness ==
    /\ Returned
    /\ Len(Errors[vcall.root]) = 2
    /\ Len(vcall.result.Errors) = 2
    /\ Imports[vcall.root] # {}
    /\ OnCycle(ModuleGraph, vcall.root)

\* the packages of the module that p imports in a file's import declarations
\* only: the loader's Imports map of p does not hold them
FileOnlyImports(p) == (Range(FlattenFiles(Syntax[p])) \ Imports[p]) \cap ModPkgs

\* C20: an intra-module import written only in a file's import declarations
\* is a full edge of the graph: it is an edge, the imported package is
\* expanded in its turn (it is a key of the graph, with its own edges), and
\* so a cycle of the written imports that the root reaches is reported.
C20_FileImportIsFullEdge ==
    (Returned /\ Errors[vcall.root] = <<>> /\ vcall.root \in ModPkgs) =>
        /\ \A p \in DOMAIN graph \cap ModPkgs :
              \A q \in FileOnlyImports(p) :
                 q \in Successors(graph, p) /\ q \in DOMAIN graph
        /\ CyclicFrom(ModuleGraph, vcall.root) => vcall.result.HasCircularDeps

\* the paths that several files of p, or a file and the loader's map, import
RepeatedImports(p) ==
    LET written == FlattenFiles(Syntax[p])
    IN {q \in Range(written) :
          Cardinality({i \in 1..Len(written) : written[i] = q}) >= 2 \/ q \in Imports[p]}

\* C21: in the graph a call built, the adjacency list of every package holds
\* each imported path at most once, whether the edge comes from the loader's
\* Imports map, from the files' import declarations, or from both.
C21_NoDuplicateEdges ==
    \A p \in DOMAIN graph :
       \A i, j \in 1..Len(graph[p]) : graph[p][i] = graph[p][j] => i = j

\* the root's list holds once a path that two of its files import and the
\* loader's map lacks, or that a file and the map both give
C21_Witness ==
    /\ Returned
    /\ vcall.root \in DOMAIN graph
    /\ \E q \in RepeatedImports(vcall.root) \ Imports[vcall.root] : q \in Range(graph[vcall.root])
    /\ Len(Syntax[vcall.root]) = 3

\* C25: buildGraph and detectCycle terminate on every finite import graph,
\* cyclic ones included: a call whose root loaded without errors returns a
\* result; and detectCycle ranges over the outgoing edges of a package at
\* most once in a call.
C25_TerminatesRangingOnce ==
    (vcall.op = "CheckCircularDependencies" /\ vcall.outcome # "error"
        /\ Errors[vcall.root] = <<>> /\ Module # NoModule) =>
        /\ vcall.outcome = "result"
        /\ \A i, j \in 1..Len(vcall.ranged) : vcall.ranged[i] = vcall.ranged[j] => i = j

\* the search ran on a graph with a cycle, ranged over the edges of all three
\* packages, one of which two packages import, and returned
C25_Witness ==
    /\ Returned
    /\ CyclicFrom(graph, vcall.root)
    /\ vcall.result.HasCircularDeps
    /\ Len(vcall.ranged) = 3
    /\ \E q \in ModPkgs \ {vcall.root} :
          Cardinality({p \in DOMAIN graph : q \in Successors(graph, p)}) = 2

-----------------------------------------------------------------------------
(* readgo2 DefaultValidator.ValidateProject: what the loader hands it      *)

\* no CheckCircularDependencies call exists and nothing is loaded for one
CycleIdle ==
    /\ Module = ModulePath
    /\ Imports = [p \in AllPkgs |-> {}]
    /\ Syntax = [p \in AllPkgs |-> <<>>]
    /\ Errors = [p \in AllPkgs |-> <<>>]
    /\ graph = NoGraph
    /\ vcall = NoCall

\* how many packages the pattern "./..." matches at most
MaxPkgs == 2

ValidationLevelBasic == "basic"
ValidationLevelStandard == "standard"
ValidationLevelStrict == "strict"
ValidationLevels == {ValidationLevelBasic, ValidationLevelStandard, ValidationLevelStrict}

\* Go's < on strings of lower-case letters: byte-wise, a proper prefix first
Alphabet == "abcdefghijklmnopqrstuvwxyz"
Rank(c) == CHOOSE i \in 1..Len(Alphabet) : SubSeq(Alphabet, i, i) = c
RECURSIVE StringLess(_, _)
StringLess(a, b) ==
    IF b = "" THEN FALSE
    ELSE IF a = "" THEN TRUE
    ELSE LET x == Rank(SubSeq(a, 1, 1))
             y == Rank(SubSeq(b, 1, 1))
         IN IF x # y THEN x < y
            ELSE StringLess(SubSeq(a, 2, Len(a)), SubSeq(b, 2, Len(b)))
\* `level >= ValidationLevelStandard`
LevelAtLeast(lvl, min) == ~StringLess(lvl, min)

\* the nodes ast.Inspect hands to ValidateProject's callback that it looks at
ImportSpec(name, path, line) ==
    [Node |-> "ImportSpec", Name |-> name, Path |-> Quote(path), Body |-> FALSE, Line |-> line]
FuncDecl(name, body, line) ==
    [Node |-> "FuncDecl", Name |-> name, Path |-> "", Body |-> body, Line |-> line]
\* an *ast.File: its name and its nodes in source order
File(name, nodes) == [Name |-> name, Nodes |-> nodes]

\* an entry of TypesInfo.Defs: the identifier, the kind of its object ("nil"
\* when it has none), and its position
Def(ident, obj, file, line) == [Ident |-> ident, Obj |-> obj, File |-> file, Line |-> line]

\* a *packages.Package as ValidateProject reads it.  Uses holds, for every
\* used identifier, the package and name of its object; Defs holds, for every
\* defining identifier, the kind of its object ("nil" when it has none).
Package(path, errors, imports, files, uses, defs, typeErrors) ==
    [PkgPath |-> path, Errors |-> errors, Imports |-> imports, Syntax |-> files,
     Uses |-> uses, Defs |-> defs, TypeErrors |-> typeErrors,
     CompiledGoFiles |-> [i \in 1..Len(files) |-> files[i].Name]]

\* a package that compiles and draws no remark at any level
PkgClean ==
    Package("testproject/clean", <<>>, {"fmt"},
            <<File("clean/clean.go", <<ImportSpec("", "fmt", 3), FuncDecl("Run", TRUE, 5)>>),
              File("clean/types.go", <<>>)>>,
            {[Pkg |-> "fmt", Name |-> "Println"]},
            {Def("clean", "nil", "clean/clean.go", 1), Def("Run", "func", "clean/clean.go", 5)},
            <<>>)

\* a package the loader could not parse: two errors, no syntax trees
PkgBroken ==
    [Package("testproject/broken",
             <<"broken/broken.go:3:1: syntax error: unexpected }",
               "broken/broken.go:9:1: expected declaration">>,
             {}, <<>>, {}, {}, <<>>)
     EXCEPT !.CompiledGoFiles = <<"broken/broken.go">>]

\* a blank import, a function declared without a body, a third-party import
PkgLint ==
    Package("testproject/lint", <<>>, {"embed", "github.com/x/y"},
            <<File("lint/lint.go",
                   <<ImportSpec("_", "embed", 3), ImportSpec("", "github.com/x/y", 4),
                     FuncDecl("add", FALSE, 6), FuncDecl("Use", TRUE, 8)>>)>>,
            {[Pkg |-> "github.com/x/y", Name |-> "Y"]},
            {Def("add", "func", "lint/lint.go", 6), Def("Use", "func", "lint/lint.go", 8)},
            <<>>)

\* an import nothing refers to, two variables nothing reads, one that is read,
\* and a struct field
PkgUnused ==
    Package("testproject/unused", <<>>, {"os"},
            <<File("unused/unused.go", <<ImportSpec("", "os", 3), FuncDecl("Count", TRUE, 5)>>)>>,
            {[Pkg |-> "testproject/unused", Name |-> "n"]},
            {Def("tmp", "var", "unused/unused.go", 6), Def("count", "var", "unused/unused.go", 7),
             Def("n", "var", "unused/unused.go", 8), Def("size", "field", "unused/unused.go", 12)},
            <<>>)

\* a type error: the loader lists it in Errors and in TypeErrors, "the subset
\* of errors produced during type checking"
PkgTyped ==
    Package("testproject/typed", <<"typed/typed.go:4:17: cannot use 123 as string value">>, {},
            <<File("typed/typed.go", <<FuncDecl("Invalid", TRUE, 3)>>)>>,
            {},
            {Def("Invalid", "func", "typed/typed.go", 3), Def("x", "var", "typed/typed.go", 4)},
            <<[Msg |-> "cannot use 123 as string value", File |-> "typed/typed.go", Line |-> 4]>>)

\* the packages a project may hold, in the order the loader returns them
ProjectPool == <<PkgBroken, PkgClean, PkgLint, PkgTyped, PkgUnused>>

\* the package lists "./..." can load: the pool's sublists of at most MaxPkgs packages
Projects ==
    {SelectSeq(ProjectPool, LAMBDA p : p \in S) :
        S \in {T \in SUBSET Range(ProjectPool) : Cardinality(T) <= MaxPkgs}}

-----------------------------------------------------------------------------
(* readgo2 DefaultValidator.ValidateProject: the goroutine of one package  *)

ValidationWarning(code, message, file, line) ==
    [Level |-> "warning", Code |-> code, Message |-> message, File |-> file, Line |-> line]
\* a ValidationError of ValidateProject; Line is 0 where the code sets none
ProjectError(code, message, file, line) ==
    [Line |-> line] @@ ValidationError(code, message, file, "")

\* What one critical section (mu.Lock() ... mu.Unlock()) does to result: the
\* elements it appends to each slice, whether it clears Valid, and the Stats
\* counter it adds to.
Section(errors, warnings, imports, external, invalid, counter, by) ==
    [Errors |-> errors, Warnings |-> warnings, Imports |-> imports, ExternalDeps |-> external,
     Invalid |-> invalid, Counter |-> counter, By |-> by]

RECURSIVE Concat(_)
Concat(ss) == IF ss = <<>> THEN <<>> ELSE Head(ss) \o Concat(Tail(ss))

\* only the first loader error is reported
PkgErrorsSectionFirstOnly(p) ==
    Section(<<ProjectError("PKG_ERROR", p.Errors[1], p.PkgPath, 0)>>,
            <<>>, <<>>, <<>>, TRUE, "", 0)
\* `if len(pkg.Errors) > 0`: one PKG_ERROR per loader error, Valid = false
PkgErrorsSection(p) ==
    Section([i \in 1..Len(p.Errors) |-> ProjectError("PKG_ERROR", p.Errors[i], p.PkgPath, 0)],
            <<>>, <<>>, <<>>, TRUE, "", 0)

\* the loop over pkg.Imports, which walks the map in the order ord
ImportsSection(ord) ==
    Section(<<>>, <<>>, ord, SelectSeq(ord, IsExternalDep), FALSE, "", 0)

\* every node of every file with the name of its file, in ast.Inspect's order
PositionedNodes(p) ==
    Concat([i \in 1..Len(p.Syntax) |->
               [j \in 1..Len(p.Syntax[i].Nodes) |->
                   [File |-> p.Syntax[i].Name, N |-> p.Syntax[i].Nodes[j]]]])

WarningSection(code, message, file, line, counter) ==
    Section(<<>>, <<ValidationWarning(code, message, file, line)>>, <<>>, <<>>, FALSE,
            counter, IF counter = "" THEN 0 ELSE 1)

\* the ast.Inspect pass of the standard level: BLANK_IMPORT and EMPTY_FUNC
InspectSections(p) ==
    LET hits == SelectSeq(PositionedNodes(p),
                          LAMBDA x : \/ x.N.Node = "ImportSpec" /\ x.N.Name = "_"
                                     \/ x.N.Node = "FuncDecl" /\ ~x.N.Body)
    IN [k \in 1..Len(hits) |->
           IF hits[k].N.Node = "ImportSpec"
           THEN WarningSection("BLANK_IMPORT", "blank import: " \o hits[k].N.Path,
                               hits[k].File, hits[k].N.Line, "")
           ELSE WarningSection("EMPTY_FUNC", "empty function: " \o hits[k].N.Name,
                               hits[k].File, hits[k].N.Line, "")]

\* the strict level's loop over file.Imports: an import no use refers to
UnusedImportSections(p) ==
    LET hits == SelectSeq(PositionedNodes(p),
                          LAMBDA x : /\ x.N.Node = "ImportSpec"
                                     /\ ~\E u \in p.Uses : u.Pkg = TrimQuotes(x.N.Path))
    IN [k \in 1..Len(hits) |->
           WarningSection("UNUSED_IMPORT", "unused import: " \o TrimQuotes(hits[k].N.Path),
                          hits[k].File, hits[k].N.Line, "UnusedImports")]

\* the strict level's loop over TypesInfo.Defs, which walks the map in the order ord
UnusedVarSections(p, ord) ==
    LET hits == SelectSeq(ord, LAMBDA d : /\ d.Obj = "var"
                                          /\ [Pkg |-> p.PkgPath, Name |-> d.Ident] \notin p.Uses)
    IN [k \in 1..Len(hits) |->
           WarningSection("UNUSED_VAR", "unused variable: " \o hits[k].Ident,
                          hits[k].File, hits[k].Line, "UnusedVariables")]

ErrorSection(e, counter) == Section(<<e>>, <<>>, <<>>, <<>>, TRUE, counter, 1)

\* the strict level's loop over pkg.TypeErrors
TypeErrorSections(p) ==
    [k \in 1..Len(p.TypeErrors) |->
        ErrorSection(ProjectError("TYPE_ERROR", p.TypeErrors[k].Msg, p.TypeErrors[k].File,
                                  p.TypeErrors[k].Line), "TypeErrors")]

\* the strict level's loop over pkg.Errors
SyntaxErrorSections(p) ==
    LET hits == SelectSeq(p.Errors, LAMBDA e : Contains(e, "syntax error"))
    IN [k \in 1..Len(hits) |->
           ErrorSection(ProjectError("SYNTAX_ERROR", hits[k], p.PkgPath, 0), "SyntaxErrors")]

\* `result.Stats.FilesChecked += len(pkg.CompiledGoFiles)`
FilesCheckedSection(p) ==
    Section(<<>>, <<>>, <<>>, <<>>, FALSE, "FilesChecked", Len(p.CompiledGoFiles))

\* The critical sections the goroutine of package p goes through at level lvl,
\* in order; one list for every order in which its two map loops can run.
Plans(p, lvl) ==
    IF Len(p.Errors) > 0 THEN {<<PkgErrorsSection(p)>>}
    ELSE {<<ImportsSection(impOrd)>>
            \o (IF LevelAtLeast(lvl, ValidationLevelStandard) THEN InspectSections(p) ELSE <<>>)
            \o (IF lvl = ValidationLevelStrict
                THEN UnusedImportSections(p) \o UnusedVarSections(p, defOrd)
                        \o TypeErrorSections(p) \o SyntaxErrorSections(p)
                ELSE <<>>)
            \o <<FilesCheckedSection(p)>> :
          impOrd \in Perms(p.Imports), defOrd \in Perms(p.Defs)}

-----------------------------------------------------------------------------
(* readgo2 DefaultValidator.ValidateProject: the steps of a call           *)

\* the zero sync.Mutex
Unlocked == 0
\* goroutine g of 1..Len(pkgs) runs pkgs[g]; the caller's goroutine comes after them
MainGoroutine == Len(pkgs) + 1

\* mu.Lock() by goroutine g
LockWithoutWaiting(g) == mu' = g
Lock(g) == mu = Unlocked /\ mu' = g

\* The stores of one critical section: each slice it appends to and each
\* counter it adds to becomes the value the goroutine read, extended; the
\* fields it does not assign keep what they hold.
Commit(cur, seen, sec) ==
    [cur EXCEPT
        !.Errors = IF sec.Errors # <<>> THEN seen.Errors \o sec.Errors ELSE @,
        !.Warnings = IF sec.Warnings # <<>> THEN seen.Warnings \o sec.Warnings ELSE @,
        !.Imports = IF sec.Imports # <<>> THEN seen.Imports \o sec.Imports ELSE @,
        !.ExternalDeps = IF sec.ExternalDeps # <<>> THEN seen.ExternalDeps \o sec.ExternalDeps ELSE @,
        !.HasExternalDeps = IF sec.ExternalDeps # <<>> THEN TRUE ELSE @,
        !.Valid = IF sec.Invalid THEN FALSE ELSE @,
        !.Stats = IF sec.Counter # ""
                  THEN [@ EXCEPT ![sec.Counter] = seen.Stats[sec.Counter] + sec.By]
                  ELSE @]

InitProject ==
    /\ level \in ValidationLevels
    /\ pkgs \in Projects
    /\ main = "start"
    /\ spawned = 0 /\ wg = 0 /\ mu = Unlocked
    /\ plan = <<>> /\ pc = <<>> /\ snap = <<>>
    /\ result = NewResult
    /\ err = ""
    /\ CycleIdle
    /\ CacheIdle
    /\ AnalyzeIdle
    /\ FileIdle
    /\ RWIdle
    /\ PeerIdle
    /\ DepsIdle
    /\ ObserverIdle
    /\ TreeIdle
    /\ ExtIdle

\* the early returns: a nil context, a failing packages.Load
ValidateProjectFails ==
    /\ main = "start"
    /\ main' = "failed"
    /\ err' \in {"nil context", "load packages"}
    /\ UNCHANGED <<level, pkgs, spawned, wg, mu, plan, pc, snap, result>>
    /\ UNCHANGED outsideProject

\* packages.Load returns pkgs
Load ==
    /\ main = "start"
    /\ main' = "spawn"
    /\ UNCHANGED <<level, pkgs, spawned, wg, mu, plan, pc, snap, result, err>>
    /\ UNCHANGED outsideProject

\* one iteration of `for _, pkg := range pkgs`: wg.Add(1) and the go statement
Spawn ==
    /\ main = "spawn"
    /\ spawned < Len(pkgs)
    /\ \E pl \in Plans(pkgs[spawned + 1], level) : plan' = Append(plan, pl)
    /\ wg' = wg + 1
    /\ spawned' = spawned + 1
    /\ pc' = Append(pc, [cs |-> 1, at |-> "lock"])
    /\ snap' = Append(snap, NewResult)
    /\ UNCHANGED <<level, pkgs, main, mu, result, err>>
    /\ UNCHANGED outsideProject

\* mu.Lock() skipped: the goroutine walks into its critical section as it is
EnterSectionUnlocked(g) ==
    /\ pc[g].at = "lock"
    /\ pc' = [pc EXCEPT ![g].at = "read"]
    /\ UNCHANGED <<level, pkgs, main, spawned, wg, mu, plan, snap, result, err>>
    /\ UNCHANGED outsideProject
\* goroutine g takes mu at the head of its next critical section
EnterSection(g) ==
    /\ pc[g].at = "lock"
    /\ Lock(g)
    /\ pc' = [pc EXCEPT ![g].at = "read"]
    /\ UNCHANGED <<level, pkgs, main, spawned, wg, plan, snap, result, err>>
    /\ UNCHANGED outsideProject

\* it reads the slices and counters the section is about to extend
ReadResult(g) ==
    /\ pc[g].at = "read"
    /\ snap' = [snap EXCEPT ![g] = result]
    /\ pc' = [pc EXCEPT ![g].at = "write"]
    /\ UNCHANGED <<level, pkgs, main, spawned, wg, mu, plan, result, err>>
    /\ UNCHANGED outsideProject

\* it stores them back extended and calls mu.Unlock()
WriteResult(g) ==
    /\ pc[g].at = "write"
    /\ result' = Commit(result, snap[g], plan[g][pc[g].cs])
    /\ mu' = Unlocked
    /\ snap' = [snap EXCEPT ![g] = NewResult]
    /\ pc' = [pc EXCEPT ![g] = IF pc[g].cs = Len(plan[g])
                                THEN [cs |-> pc[g].cs, at |-> "done"]
                                ELSE [cs |-> pc[g].cs + 1, at |-> "lock"]]
    /\ UNCHANGED <<level, pkgs, main, spawned, wg, plan, err>>
    /\ UNCHANGED outsideProject

\* the deferred wg.Done() of goroutine g
Done(g) ==
    /\ pc[g].at = "done"
    /\ wg' = wg - 1
    /\ pc' = [pc EXCEPT ![g].at = "exited"]
    /\ UNCHANGED <<level, pkgs, main, spawned, mu, plan, snap, result, err>>
    /\ UNCHANGED outsideProject

\* wg.Wait() that does not wait
WaitWithoutBlocking ==
    /\ main = "spawn"
    /\ spawned = Len(pkgs)
    /\ main' = "lock"
    /\ UNCHANGED <<level, pkgs, spawned, wg, mu, plan, pc, snap, result, err>>
    /\ UNCHANGED outsideProject
\* wg.Wait() returns
Wait ==
    /\ main = "spawn"
    /\ spawned = Len(pkgs)
    /\ wg = 0
    /\ main' = "lock"
    /\ UNCHANGED <<level, pkgs, spawned, wg, mu, plan, pc, snap, result, err>>
    /\ UNCHANGED outsideProject

\* the caller takes mu for the final counts
CountLock ==
    /\ main = "lock"
    /\ Lock(MainGoroutine)
    /\ main' = "count"
    /\ UNCHANGED <<level, pkgs, spawned, wg, plan, pc, snap, result, err>>
    /\ UNCHANGED outsideProject

\* ErrorCount and WarningCount from the lengths of the slices, mu.Unlock(), return
Count ==
    /\ main = "count"
    /\ result' = [result EXCEPT !.Stats.ErrorCount = Len(result.Errors),
                                !.Stats.WarningCount = Len(result.Warnings)]
    /\ mu' = Unlocked
    /\ main' = "done"
    /\ UNCHANGED <<level, pkgs, spawned, wg, plan, pc, snap, err>>
    /\ UNCHANGED outsideProject

NextProject ==
    \/ ValidateProjectFails
    \/ Load
    \/ Spawn
    \/ \E g \in 1..spawned : EnterSection(g)
    \/ \E g \in 1..spawned : ReadResult(g)
    \/ \E g \in 1..spawned : WriteResult(g)
    \/ \E g \in 1..spawned : Done(g)
    \/ Wait
    \/ CountLock
    \/ Count

SpecProject == InitProject /\ [][NextProject]_vars

-----------------------------------------------------------------------------
(* Claims about ValidateProject.                                           *)

\* how often each element occurs in a list
BagOf(s) == [x \in Range(s) |-> Cardinality({i \in 1..Len(s) : s[i] = x})]

\* the critical sections of all goroutines, package after package
SequentialSections == Concat(plan)

\* what the same critical sections leave in a fresh result when they run one
\* after another, followed by the final counts
RECURSIVE RunSections(_, _)
RunSections(r, secs) ==
    IF secs = <<>> THEN r ELSE RunSections(Commit(r, r, Head(secs)), Tail(secs))
SequentialResult ==
    LET r == RunSections(NewResult, SequentialSections)
    IN [r EXCEPT !.Stats.ErrorCount = Len(r.Errors), !.Stats.WarningCount = Len(r.Warnings)]

\* C4: when ValidateProject returns, Errors and Warnings hold exactly the
\* diagnostics that processing the same packages one after another yields
\* (as multisets: no append is lost or doubled), and every Stats counter,
\* ErrorCount and WarningCount included, equals the sequential one.
C4_ConcurrentTotals ==
    main = "done" =>
        /\ BagOf(result.Errors) = BagOf(SequentialResult.Errors)
        /\ BagOf(result.Warnings) = BagOf(SequentialResult.Warnings)
        /\ result.Stats = SequentialResult.Stats
        /\ result.Stats.ErrorCount = Len(SequentialResult.Errors)
        /\ result.Stats.WarningCount = Len(SequentialResult.Warnings)

\* a finished strict run of two packages whose goroutines interleaved their
\* appends and their counter increments: the warnings are in another order
\* than the sequential run's
C4_Witness ==
    /\ main = "done"
    /\ Len(pkgs) >= 2
    /\ result.Stats.WarningCount >= 4
    /\ result.Warnings # SequentialResult.Warnings
    /\ result.Stats.UnusedImports >= 2
    /\ result.Stats.UnusedVariables >= 2

\* goroutine g stands between the mu.Lock() and the mu.Unlock() of a critical section
InSection(g) == pc[g].at \in {"read", "write"}

\* C11 (state part): a goroutine that is inside a critical section holds mu,
\* so at most one goroutine is inside one at any time
MutexHeldInSection ==
    /\ \A g \in 1..spawned : InSection(g) => mu = g
    /\ main = "count" => mu = MainGoroutine
    /\ Cardinality({g \in 1..spawned : InSection(g)}) <= 1

\* C11 (step part): a step that changes result is the store of the goroutine
\* that holds mu, and it ends with that goroutine's mu.Unlock()
MutationByHolder ==
    result' # result =>
        /\ mu # Unlocked
        /\ mu' = Unlocked
        /\ \/ mu = MainGoroutine /\ main = "count"
           \/ mu # MainGoroutine /\ pc[mu].at = "write"

\* C11: every mutation of the shared result by a package goroutine (appends to
\* Errors, Warnings, Imports, ExternalDeps; writes to Valid and HasExternalDeps;
\* increments of Stats counters) happens while that goroutine holds mu, and no
\* two goroutines are ever inside a critical section at once.
C11_MutationsUnderMutex == []MutexHeldInSection /\ [][MutationByHolder]_vars

\* one goroutine is about to store into a result that already holds another
\* goroutine's appends, while a second goroutine waits at mu.Lock()
C11_Witness ==
    /\ \E g \in 1..spawned : pc[g].at = "write" /\ mu = g
    /\ \E h \in 1..spawned : pc[h].at = "lock"
    /\ result # NewResult

\* every package goroutine has run its deferred wg.Done()
AllExited == spawned = Len(pkgs) /\ \A g \in 1..Len(pkgs) : pc[g].at = "exited"

\* C12 (state part): past wg.Wait() every goroutine has finished, and the
\* returned counts are the lengths of the returned lists
ReturnedAfterAll ==
    /\ main \in {"lock", "count", "done"} => AllExited /\ wg = 0
    /\ main = "done" =>
          /\ result.Stats.ErrorCount = Len(result.Errors)
          /\ result.Stats.WarningCount = Len(result.Warnings)
          /\ mu = Unlocked

\* C12 (step part): past wg.Wait() the only store into result is the caller's
\* final count, and nothing changes it after the return
OnlyCountAfterWait ==
    (main \in {"lock", "count", "done"} /\ result' # result) =>
        (main = "count" /\ main' = "done")

\* C12: ValidateProject returns only after every spawned package goroutine has
\* finished; ErrorCount and WarningCount are computed after that point and
\* equal len(Errors) and len(Warnings) of the returned result; no goroutine
\* modifies the result after the return.
C12_ReturnsAfterAllGoroutines == []ReturnedAfterAll /\ [][OnlyCountAfterWait]_vars

\* a returned result of two packages that holds errors and warnings
C12_Witness ==
    /\ main = "done"
    /\ Len(pkgs) = 2
    /\ AllExited
    /\ result.Stats.ErrorCount >= 1
    /\ result.Stats.WarningCount >= 1

\* the goroutines whose package has loader errors
Failing == {g \in 1..Len(pkgs) : Len(pkgs[g].Errors) > 0}

\* what the critical sections of the other packages leave in a fresh result
\* when the failing packages are not there
ResultWithoutFailing ==
    RunSections(NewResult,
                Concat([g \in 1..Len(plan) |-> IF g \in Failing THEN <<>> ELSE plan[g]]))

\* C13: when ValidateProject returns, every package with loader errors has
\* contributed one PKG_ERROR per loader error and Valid is false; its
\* goroutine ran that one critical section and ended; the errors, warnings,
\* imports, external dependencies and counters of the other packages are the
\* ones a run without the failing packages yields (as multisets).
C13_FailingPackageIsolated ==
    (main = "done" /\ Failing # {}) =>
        /\ ~result.Valid
        /\ \A g \in Failing :
              /\ Len(plan[g]) = 1
              /\ pc[g].at = "exited"
              /\ \A i \in 1..Len(pkgs[g].Errors) :
                    Cardinality({j \in 1..Len(result.Errors) :
                                    /\ result.Errors[j].Code = "PKG_ERROR"
                                    /\ result.Errors[j].File = pkgs[g].PkgPath
                                    /\ result.Errors[j].Message = pkgs[g].Errors[i]}) = 1
        /\ Cardinality({j \in 1..Len(result.Errors) : result.Errors[j].Code = "PKG_ERROR"})
              = Len(Concat([g \in 1..Len(pkgs) |-> IF g \in Failing THEN pkgs[g].Errors ELSE <<>>]))
        /\ BagOf(SelectSeq(result.Errors, LAMBDA e : e.Code # "PKG_ERROR"))
              = BagOf(ResultWithoutFailing.Errors)
        /\ BagOf(result.Warnings) = BagOf(ResultWithoutFailing.Warnings)
        /\ BagOf(result.Imports) = BagOf(ResultWithoutFailing.Imports)
        /\ BagOf(result.ExternalDeps) = BagOf(ResultWithoutFailing.ExternalDeps)
        /\ result.HasExternalDeps = ResultWithoutFailing.HasExternalDeps
        /\ \A c \in {"FilesChecked", "UnusedImports", "UnusedVariables", "TypeErrors", "SyntaxErrors"} :
              result.Stats[c] = ResultWithoutFailing.Stats[c]

\* a strict run of the unparsable package next to the package with a blank
\* import, an empty function and a third-party import: two PKG_ERRORs, and
\* the other package's warnings, imports and file count all there
C13_Witness ==
    /\ main = "done"
    /\ level = ValidationLevelStrict
    /\ pkgs = <<PkgBroken, PkgLint>>
    /\ Len(result.Errors) = 2
    /\ Len(result.Warnings) >= 2
    /\ Len(result.Imports) = 2
    /\ result.HasExternalDeps
    /\ result.Stats.FilesChecked = 1

\* the loader error e of package p is one of p's type errors
IsTypeErrorOf(p, e) == \E k \in 1..Len(p.TypeErrors) : Contains(e, p.TypeErrors[k].Msg)

\* the only defects of the loaded project are type-checker errors in some package
OnlyTypeDefects ==
    /\ \E g \in 1..Len(pkgs) : pkgs[g].TypeErrors # <<>>
    /\ \A g \in 1..Len(pkgs) :
          \A i \in 1..Len(pkgs[g].Errors) : IsTypeErrorOf(pkgs[g], pkgs[g].Errors[i])

\* C18: for a project whose only defects are type-checker errors in some
\* package, ValidateProject returns Valid = true and no errors at the basic
\* and the standard level, and Valid = false with at least one TYPE_ERROR at
\* the strict level.
C18_TypeErrorsOnlyAtStrict ==
    (main = "done" /\ OnlyTypeDefects) =>
        IF level = ValidationLevelStrict
        THEN /\ ~result.Valid
             /\ \E i \in 1..Len(result.Errors) : result.Errors[i].Code = "TYPE_ERROR"
        ELSE /\ result.Valid
             /\ result.Errors = <<>>

\* the loader errors of package p whose message contains "syntax error"
SyntaxMessages(p) == SelectSeq(p.Errors, LAMBDA e : Contains(e, "syntax error"))

\* C22: at the strict level every loader error of a package whose message
\* contains "syntax error" is in the returned result as an error with code
\* SYNTAX_ERROR, and Stats.SyntaxErrors counts them.
C22_SyntaxErrorsAtStrict ==
    (main = "done" /\ level = ValidationLevelStrict) =>
        /\ \A g \in 1..Len(pkgs) :
              \A k \in 1..Len(SyntaxMessages(pkgs[g])) :
                 \E i \in 1..Len(result.Errors) :
                    /\ result.Errors[i].Code = "SYNTAX_ERROR"
                    /\ result.Errors[i].Message = SyntaxMessages(pkgs[g])[k]
        /\ result.Stats.SyntaxErrors =
              Len(Concat([g \in 1..Len(pkgs) |-> SyntaxMessages(pkgs[g])]))

-----------------------------------------------------------------------------
(* readgo Cache (cache.go): three sync.Maps of CacheEntry and a TTL        *)

\* the last instant of the clock
MaxTime == 2
\* the TTLs a cache is built with: zero, and one tick of the clock
TTLs == {0, 1}
\* how many Get calls can stand between their Load and their Delete at once
MaxInFlight == 1

\* TypeCacheKey, PackageCacheKey, FileCacheKey
TypeCacheKeys == {[Package |-> "pkg", TypeName |-> "Reader", Kind |-> ""],
                  [Package |-> "pkg", TypeName |-> "Reader", Kind |-> "interface"]}
PackageCacheKeys == {[Path |-> "pkg", Mode |-> "full"]}
FileCacheKeys == {[Path |-> "pkg/reader.go", ModTime |-> 0]}
CacheKeys == [type |-> TypeCacheKeys, package |-> PackageCacheKeys, file |-> FileCacheKeys]
CacheKinds == {"type", "package", "file"}

\* the *TypeInfo and *AnalysisResult pointers callers store
CacheValues == [type |-> {"typeInfo1", "typeInfo2"}, package |-> {"pkgResult1"},
                file |-> {"fileResult1"}]

\* the entry a Set builds at the instant t: ExpiresAt = now.Add(c.ttl)
CacheEntry(value, t) == [Data |-> value, CreatedAt |-> t, ExpiresAt |-> t + ttl]

\* !t.After(u) in place of t.Before(u)
NotAfter(t, u) == t <= u
\* time.Time.Before
Before(t, u) == t < u

\* sync.Map.Store and sync.Map.Delete on a map held as a function
MapStore(m, key, entry) == (key :> entry) @@ m
MapDelete(m, key) ==
    IF DOMAIN m \subseteq {key} THEN <<>> ELSE [x \in DOMAIN m \ {key} |-> m[x]]

\* the sync.Map a kind of key lives in
CacheOf(kind) ==
    IF kind = "type" THEN typeCache ELSE IF kind = "package" THEN packageCache ELSE fileCache

\* the three maps after the map of kind became m
CachesBecome(kind, m) ==
    /\ typeCache' = IF kind = "type" THEN m ELSE typeCache
    /\ packageCache' = IF kind = "package" THEN m ELSE packageCache
    /\ fileCache' = IF kind = "file" THEN m ELSE fileCache

NoDeleting == [kind \in CacheKinds |-> [k \in CacheKeys[kind] |-> 0]]
NoStored == [kind \in CacheKinds |-> <<>>]

RECURSIVE SumOver(_, _)
SumOver(f, S) ==
    IF S = {} THEN 0 ELSE LET x == CHOOSE y \in S : TRUE IN f[x] + SumOver(f, S \ {x})
\* the Get calls that have loaded an expired entry and not yet deleted its key
InFlight == SumOver([kind \in CacheKinds |-> SumOver(deleting[kind], CacheKeys[kind])], CacheKinds)

NoRet == [op |-> "none", kind |-> "", key |-> [Path |-> ""], found |-> FALSE, Data |-> "nil",
          expired |-> FALSE, fresh |-> FALSE, stored |-> "nil",
          stats |-> [type_entries |-> 0, package_entries |-> 0, file_entries |-> 0,
                     ttl_seconds |-> 0]]

\* What a GetType / GetPackage / GetFile call hands back.  fresh and stored
\* tell what stood in `stored` for the key when the call did its Load; a call
\* that loaded an expired entry found none there.
GetRet(kind, key, found, data, expired) ==
    [NoRet EXCEPT !.op = "Get", !.kind = kind, !.key = key, !.found = found, !.Data = data,
                  !.expired = expired,
                  !.fresh = ~expired /\ key \in DOMAIN stored[kind],
                  !.stored = IF ~expired /\ key \in DOMAIN stored[kind]
                             THEN stored[kind][key].Data ELSE "nil"]

\* NewCache(ttl)
InitCache ==
    /\ ttl \in TTLs
    /\ now = 0
    /\ typeCache = <<>> /\ packageCache = <<>> /\ fileCache = <<>>
    /\ deleting = NoDeleting
    /\ stored = NoStored
    /\ ret = NoRet
    /\ CycleIdle
    /\ ProjectIdle
    /\ AnalyzeIdle
    /\ FileIdle
    /\ RWIdle
    /\ PeerIdle
    /\ DepsIdle
    /\ ObserverIdle
    /\ TreeIdle
    /\ ExtIdle

\* Get, first half: Load and the expiry test.  A live entry and a missing key
\* end the call; an expired entry leaves the Delete to come.
GetLoad(kind, key) ==
    /\ ret.op = "none"
    /\ LET m == CacheOf(kind)
       IN IF key \in DOMAIN m /\ Before(now, m[key].ExpiresAt)
          THEN ret' = GetRet(kind, key, TRUE, m[key].Data, FALSE) /\ UNCHANGED deleting
          ELSE IF key \in DOMAIN m
          THEN /\ InFlight < MaxInFlight
               /\ deleting' = [deleting EXCEPT ![kind][key] = @ + 1]
               /\ UNCHANGED ret
          ELSE ret' = GetRet(kind, key, FALSE, "nil", FALSE) /\ UNCHANGED deleting
    /\ UNCHANGED <<ttl, now, typeCache, packageCache, fileCache, stored>>
    /\ UNCHANGED outsideCache

\* Get, second half: Delete(key) and `return nil, false`
GetDelete(kind, key) ==
    /\ ret.op = "none"
    /\ deleting[kind][key] > 0
    /\ CachesBecome(kind, MapDelete(CacheOf(kind), key))
    /\ deleting' = [deleting EXCEPT ![kind][key] = @ - 1]
    /\ ret' = GetRet(kind, key, FALSE, "nil", TRUE)
    /\ UNCHANGED <<ttl, now, stored>>
    /\ UNCHANGED outsideCache

\* SetType / SetPackage / SetFile
Set(kind, key, value) ==
    /\ ret.op = "none"
    /\ CachesBecome(kind, MapStore(CacheOf(kind), key, CacheEntry(value, now)))
    /\ stored' = [stored EXCEPT ![kind] =
                     IF Before(now, now + ttl)
                     THEN MapStore(@, key, CacheEntry(value, now))
                     ELSE MapDelete(@, key)]
    /\ UNCHANGED <<ttl, now, deleting, ret>>
    /\ UNCHANGED outsideCache

GetType == \E key \in TypeCacheKeys : GetLoad("type", key) \/ GetDelete("type", key)
SetType == \E key \in TypeCacheKeys, value \in CacheValues["type"] : Set("type", key, value)
GetPackage == \E key \in PackageCacheKeys : GetLoad("package", key) \/ GetDelete("package", key)
SetPackage ==
    \E key \in PackageCacheKeys, value \in CacheValues["package"] : Set("package", key, value)
GetFile == \E key \in FileCacheKeys : GetLoad("file", key) \/ GetDelete("file", key)
SetFile == \E key \in FileCacheKeys, value \in CacheValues["file"] : Set("file", key, value)

\* Clear: each map field becomes a new sync.Map
Clear ==
    /\ ret.op = "none"
    /\ typeCache' = <<>> /\ packageCache' = <<>> /\ fileCache' = <<>>
    /\ stored' = NoStored
    /\ UNCHANGED <<ttl, now, deleting, ret>>
    /\ UNCHANGED outsideCache

RangeCountLive(m) == Cardinality({k \in DOMAIN m : Before(now, m[k].ExpiresAt)})
\* the count a Range over one map makes
RangeCount(m) == Cardinality(DOMAIN m)

Stats ==
    /\ ret.op = "none"
    /\ ret' = [NoRet EXCEPT !.op = "Stats",
                            !.stats = [type_entries |-> RangeCount(typeCache),
                                       package_entries |-> RangeCount(packageCache),
                                       file_entries |-> RangeCount(fileCache),
                                       ttl_seconds |-> ttl]]
    /\ UNCHANGED <<ttl, now, typeCache, packageCache, fileCache, deleting, stored>>
    /\ UNCHANGED outsideCache

\* the caller takes what the call returned
TakeResult ==
    /\ ret.op # "none"
    /\ ret' = NoRet
    /\ UNCHANGED <<ttl, now, typeCache, packageCache, fileCache, deleting, stored>>
    /\ UNCHANGED outsideCache

\* the clock advances; an entry that reaches its expiry is no longer one a
\* Get has to return
Tick ==
    /\ ret.op = "none"
    /\ now < MaxTime
    /\ now' = now + 1
    /\ stored' = [kind \in CacheKinds |->
                    LET live == {k \in DOMAIN stored[kind] : Before(now + 1, stored[kind][k].ExpiresAt)}
                    IN IF live = {} THEN <<>> ELSE [k \in live |-> stored[kind][k]]]
    /\ UNCHANGED <<ttl, typeCache, packageCache, fileCache, deleting, ret>>
    /\ UNCHANGED outsideCache

NextCache ==
    \/ GetType \/ SetType
    \/ GetPackage \/ SetPackage
    \/ GetFile \/ SetFile
    \/ Clear
    \/ Stats
    \/ TakeResult
    \/ Tick

SpecCache == InitCache /\ [][NextCache]_vars

-----------------------------------------------------------------------------
(* Claims about the sync.Map cache.                                        *)

\* the entry under key has passed its expiry time
Expired(kind, key) ==
    key \in DOMAIN CacheOf(kind) /\ ~Before(now, CacheOf(kind)[key].ExpiresAt)

\* C5: a Get on k that follows a Set(k, v), comes before that entry's expiry
\* time and has no Set on k and no Clear between the two, returns found = true
\* and the value v.
C5_RoundTrip ==
    (ret.op = "Get" /\ ret.fresh) => (ret.found /\ ret.Data = ret.stored)

\* a Get has just returned not-found after deleting the key it found expired
ExpiredGetReturned == ret.op = "Get" /\ ret.expired

\* what a Get returns on an expired entry, and what Stats counts
LazyExpiryReturns ==
    /\ ExpiredGetReturned => (~ret.found /\ ret.key \notin DOMAIN CacheOf(ret.kind))
    /\ (ret.op = "Get" /\ ret.found) => ~Expired(ret.kind, ret.key)
    /\ ret.op = "Stats" =>
          /\ ret.stats.type_entries = Cardinality(DOMAIN typeCache)
          /\ ret.stats.package_entries = Cardinality(DOMAIN packageCache)
          /\ ret.stats.file_entries = Cardinality(DOMAIN fileCache)

\* an expired entry leaves its map only in the Delete of a Get on its key or in a Clear
LazyExpiryRemoves ==
    \A kind \in CacheKinds : \A key \in CacheKeys[kind] :
        (Expired(kind, key) /\ key \notin DOMAIN CacheOf(kind)') =>
            (GetDelete(kind, key) \/ Clear)

\* C6: a Get on a key whose entry has passed its expiry time returns not-found
\* and leaves the key deleted; until such a Get or a Clear no step removes the
\* expired entry (not a Set, not a Get of another key, not the passing of
\* time), and Stats counts it.
C6_LazyExpiry == []LazyExpiryReturns /\ [][LazyExpiryRemoves]_vars

\* a Get has just deleted the expired entry of one type key and returned
\* not-found while the expired entry of the other type key is still in the map
C6_Witness ==
    /\ ExpiredGetReturned
    /\ ~ret.found
    /\ ret.kind = "type"
    /\ \E other \in TypeCacheKeys : other # ret.key /\ Expired("type", other)

\* a Get on key does its Load while the entry of a completed Set on key
\* stands unexpired and unreplaced, and returns that entry's value
GetSeesSet(kind, key) ==
    (GetLoad(kind, key) /\ key \in DOMAIN stored[kind]) =>
        /\ ret'.op = "Get"
        /\ ret'.found
        /\ ret'.Data = stored[kind][key].Data

\* C16: in every interleaving of concurrent Get and Set calls (and Clear),
\* once a Set(k, v) has completed, a Get(k) issued after it and before the
\* entry's expiry returns v, unless a later Set on k or a Clear replaced it.
C16_ConcurrentGetSeesSet ==
    [][\A kind \in CacheKinds : \A key \in CacheKeys[kind] : GetSeesSet(kind, key)]_vars

-----------------------------------------------------------------------------
(* readgo2 DefaultAnalyzer (analyzer.go): AnalyzePackage, FindType,        *)
(* FindInterface, FindFunction                                             *)

\* how many times the call under study is made
MaxCalls == 2

\* the type of an object when it is a *types.Named: the name and package of
\* its TypeName and the kind of its underlying type
Named(name, pkgPath, underlying) == [Name |-> name, Pkg |-> pkgPath, Underlying |-> underlying]
NotNamed == Named("", "", "")

\* a types.Object: the identifier that defines it, its kind ("nil" for an
\* identifier without object), its type, and the fields of a struct type
Object(ident, kind, type, fields) == [Ident |-> ident, Kind |-> kind, Type |-> type, Fields |-> fields]

AnalyzedPath == "testproject/pkg"

ObjConfig ==
    Object("Config", "TypeName", Named("Config", AnalyzedPath, "struct"),
           <<[Name |-> "Out", Type |-> "io.Writer", Tag |-> "json:\"out\""]>>)
ObjWriter == Object("Writer", "TypeName", Named("Writer", AnalyzedPath, "interface"), <<>>)
ObjRun == Object("Run", "Func", NotNamed, <<>>)
ObjWrite == Object("Write", "Func", NotNamed, <<>>)
\* `var out io.Writer`
ObjOut == Object("out", "Var", Named("Writer", "io", "interface"), <<>>)
\* the identifier of the package clause
ObjPkgName == Object("pkg", "nil", NotNamed, <<>>)

\* an *ast.FuncDecl with the type strings AnalyzePackage reads from TypesInfo.Types
FuncDeclOf(name, receiver, parameters, results) ==
    [Name |-> name, Receiver |-> receiver, Parameters |-> parameters, Results |-> results]

\* the package the directory "pkg" holds, as packages.Load returns it
AnalyzedPkg ==
    [PkgPath |-> AnalyzedPath,
     Errors |-> <<>>,
     Imports |-> {"io", "github.com/x/y"},
     \* scope.Names() is sorted
     Scope |-> <<ObjConfig, ObjRun, ObjWriter, ObjOut>>,
     Defs |-> {ObjConfig, ObjRun, ObjWriter, ObjOut, ObjWrite, ObjPkgName},
     Syntax |-> <<[Name |-> "pkg/run.go", Funcs |-> <<FuncDeclOf("Run", "", <<"io.Writer">>, <<"error">>)>>],
                  [Name |-> "pkg/config.go",
                   Funcs |-> <<FuncDeclOf("Write", "testproject/pkg.Config", <<"[]byte">>, <<"int", "error">>)>>]>>,
     CompiledGoFiles |-> <<"pkg/run.go", "pkg/config.go">>]

\* the package the directory "broken" holds: the loader reports an error for it
UnparsedPkg ==
    [PkgPath |-> "testproject/broken",
     Errors |-> <<"broken/broken.go:3:1: expected declaration, found '}'">>,
     Imports |-> {}, Scope |-> <<>>, Defs |-> {}, Syntax |-> <<>>,
     CompiledGoFiles |-> <<"broken/broken.go">>]

SmallPath == "testproject/small"
ObjT == Object("T", "TypeName", Named("T", SmallPath, "struct"), <<>>)
ObjF == Object("F", "Func", NotNamed, <<>>)
ObjSmallName == Object("small", "nil", NotNamed, <<>>)

\* the package the directory "small" holds: one file, `type T struct{}` and
\* `func F() {}`
SmallPkg ==
    [PkgPath |-> SmallPath,
     Errors |-> <<>>,
     Imports |-> {},
     Scope |-> <<ObjF, ObjT>>,
     Defs |-> {ObjF, ObjT, ObjSmallName},
     Syntax |-> <<[Name |-> "small/small.go", Funcs |-> <<FuncDeclOf("F", "", <<>>, <<>>)>>]>>,
     CompiledGoFiles |-> <<"small/small.go">>]

\* packages.Load for a directory: the packages, or the error it returns
LoadDir(pkgPath) ==
    IF pkgPath = "pkg" THEN [err |-> "nil", pkgs |-> <<AnalyzedPkg>>]
    ELSE IF pkgPath = "small" THEN [err |-> "nil", pkgs |-> <<SmallPkg>>]
    ELSE IF pkgPath = "broken" THEN [err |-> "nil", pkgs |-> <<UnparsedPkg>>]
    ELSE IF pkgPath = "empty" THEN [err |-> "nil", pkgs |-> <<>>]
    ELSE [err |-> "chdir " \o pkgPath \o ": no such file or directory", pkgs |-> <<>>]

\* the index of the last "/" of s, 0 when it has none
RECURSIVE LastSlash(_, _)
LastSlash(s, i) == IF i = 0 \/ SubSeq(s, i, i) = "/" THEN i ELSE LastSlash(s, i - 1)
\* filepath.Base
RECURSIVE Base(_)
Base(s) ==
    IF s = "" THEN "."
    ELSE IF s = "/" THEN "/"
    ELSE IF SubSeq(s, Len(s), Len(s)) = "/" THEN Base(SubSeq(s, 1, Len(s) - 1))
    ELSE SubSeq(s, LastSlash(s, Len(s)) + 1, Len(s))

\* the AnalysisResult AnalyzePackage starts from, without its time fields
\* StartTime, AnalyzedAt and Duration
NewAnalysis(pkgPath) ==
    [Name |-> Base(pkgPath), Path |-> pkgPath, Type |-> "package", Valid |-> TRUE,
     Errors |-> <<>>, Imports |-> <<>>, HasExternalDeps |-> FALSE, ExternalDeps |-> <<>>,
     Types |-> <<>>, Functions |-> <<>>, Stats |-> [Types |-> 0, Functions |-> 0, Files |-> 0]]
NoAnalysis == NewAnalysis("")

\* the TypeInfo the goroutine of a scope name builds for a *types.TypeName
TypeInfoOf(obj, pkg) ==
    [Name |-> obj.Ident, Package |-> pkg.PkgPath,
     Type |-> IF obj.Type # NotNamed /\ obj.Type.Underlying \in {"struct", "interface"}
              THEN obj.Type.Underlying ELSE "",
     Fields |-> IF obj.Type # NotNamed /\ obj.Type.Underlying = "struct" THEN obj.Fields ELSE <<>>]

\* the FunctionInfo the goroutine of a file builds for an *ast.FuncDecl
FunctionInfoOf(decl, pkg) ==
    [Name |-> decl.Name, Package |-> pkg.PkgPath, Receiver |-> decl.Receiver,
     Parameters |-> decl.Parameters, Results |-> decl.Results]

\* the loop over pkg.Imports, which walks the map in the order ord
WithImports(res, ord) ==
    [res EXCEPT !.Imports = ord,
                !.ExternalDeps = SelectSeq(ord, IsExternalDep),
                !.HasExternalDeps = SelectSeq(ord, IsExternalDep) # <<>>]

\* the result returned for a package with loader errors
WithPackageErrors(res, errs) ==
    [res EXCEPT !.Valid = FALSE,
                !.Errors = [i \in 1..Len(errs) |-> "package error: " \o errs[i]]]

\* What an AnalyzePackage call returns before it starts any goroutine, or
\* "go on" with the loaded package.
AnalyzePackageEntry(ctx, pkgPath) ==
    IF ctx = "nil" THEN [err |-> "nil context", out |-> NoAnalysis]
    ELSE IF pkgPath = "" THEN [err |-> "empty package path", out |-> NoAnalysis]
    ELSE IF HasPrefix(pkgPath, "/") \/ HasPrefix(pkgPath, "..")
    THEN [err |-> "invalid package path: " \o pkgPath, out |-> NoAnalysis]
    ELSE LET l == LoadDir(pkgPath)
         IN IF l.err # "nil" THEN [err |-> "load package: " \o l.err, out |-> NoAnalysis]
            ELSE IF Len(l.pkgs) = 0
            THEN [err |-> "no package found at " \o pkgPath, out |-> NoAnalysis]
            ELSE IF Len(l.pkgs[1].Errors) > 0
            THEN [err |-> "nil", out |-> WithPackageErrors(NewAnalysis(pkgPath), l.pkgs[1].Errors)]
            ELSE [err |-> "go on", out |-> NewAnalysis(pkgPath)]

\* loadPackage of the Find functions
LoadPackage(pkgPath) ==
    LET l == LoadDir(pkgPath)
    IN IF l.err # "nil" THEN [err |-> l.err, pkgs |-> <<>>]
       ELSE IF Len(l.pkgs) = 0 THEN [err |-> "no package found at " \o pkgPath, pkgs |-> <<>>]
       ELSE l

NoTypeInfo == [Name |-> "", Package |-> "", Type |-> ""]

\* FindType: the scope's names in sorted order, the first named type of that name
FindTypeCall(pkgPath, typeName) ==
    LET l == LoadPackage(pkgPath)
    IN IF l.err # "nil" THEN [err |-> l.err, out |-> NoTypeInfo]
       ELSE LET hits == SelectSeq(l.pkgs[1].Scope,
                                  LAMBDA o : o.Type # NotNamed /\ o.Type.Name = typeName)
            IN IF hits = <<>>
               THEN [err |-> "type " \o typeName \o " not found in package " \o pkgPath,
                     out |-> NoTypeInfo]
               ELSE [err |-> "nil",
                     out |-> [Name |-> hits[1].Type.Name, Package |-> hits[1].Type.Pkg,
                              Type |-> "type"]]

\* FindInterface: TypesInfo.Defs walked in the order ord, the first object
\* whose type is a named interface of that name
FindInterfaceCall(pkgPath, interfaceName, ord) ==
    LET l == LoadPackage(pkgPath)
    IN IF l.err # "nil" THEN [err |-> l.err, out |-> NoTypeInfo]
       ELSE LET hits == SelectSeq(ord, LAMBDA o : /\ o.Kind # "nil"
                                                  /\ o.Type # NotNamed
                                                  /\ o.Type.Underlying = "interface"
                                                  /\ o.Type.Name = interfaceName)
            IN IF hits = <<>>
               THEN [err |-> "interface " \o interfaceName \o " not found in package " \o pkgPath,
                     out |-> NoTypeInfo]
               ELSE [err |-> "nil",
                     out |-> [Name |-> hits[1].Type.Name, Package |-> hits[1].Type.Pkg,
                              Type |-> "interface"]]

\* FindFunction: TypesInfo.Defs walked in the order ord, the first *types.Func
\* of that name
FindFunctionCall(pkgPath, funcName, ord) ==
    LET l == LoadPackage(pkgPath)
    IN IF l.err # "nil" THEN [err |-> l.err, out |-> NoTypeInfo]
       ELSE LET hits == SelectSeq(ord, LAMBDA o : o.Kind = "Func" /\ o.Ident = funcName)
            IN IF hits = <<>>
               THEN [err |-> "function " \o funcName \o " not found in package " \o pkgPath,
                     out |-> NoTypeInfo]
               ELSE [err |-> "nil",
                     out |-> [Name |-> hits[1].Ident, Package |-> l.pkgs[1].PkgPath,
                              Type |-> "function"]]

\* the Defs of the package a Find function loaded (none when the load failed)
DefsOf(pkgPath) ==
    LET l == LoadPackage(pkgPath) IN IF l.err # "nil" THEN {} ELSE l.pkgs[1].Defs

-----------------------------------------------------------------------------
(* readgo2 DefaultAnalyzer: the steps of the calls                         *)

\* the calls a client repeats: the operation, its context and its arguments
AnalyzerCalls ==
    [op : {"AnalyzePackage"}, ctx : {"ctx"}, pkgPath : {"pkg", "broken", "empty", "missing", "", "/pkg", "../pkg"},
     name : {""}]
        \cup [op : {"AnalyzePackage"}, ctx : {"nil"}, pkgPath : {"pkg"}, name : {""}]
        \cup [op : {"FindType", "FindInterface", "FindFunction"}, ctx : {"ctx"},
              pkgPath : {"pkg", "empty", "missing"}, name : {"Config", "Writer", "Run", "Write", "Reader"}]

\* mu.Lock() of AnalyzePackage by collector g
LockAnalysis(g) == amu = Unlocked /\ amu' = g

\* the package the running AnalyzePackage call loaded
Loaded == LoadDir(acall.pkgPath).pkgs[1]

\* the goroutines the running call starts: one per scope name, then one per file
Collectors == Len(Loaded.Scope) + Len(Loaded.Syntax)

\* the appends collector g still has to make
Pending(g) ==
    LET c == collectors[g]
    IN IF c.kind = "name"
       THEN IF Loaded.Scope[c.idx].Kind = "TypeName" THEN 2 - c.pos ELSE 0
       ELSE Len(Loaded.Syntax[c.idx].Funcs) + 1 - c.pos

InitAnalyze ==
    /\ acall \in AnalyzerCalls
    /\ amain = "idle"
    /\ analysis = NoAnalysis
    /\ aspawned = 0 /\ awg = 0 /\ amu = Unlocked
    /\ collectors = <<>>
    /\ returned = <<>>
    /\ CycleIdle /\ ProjectIdle /\ CacheIdle
    /\ FileIdle
    /\ RWIdle
    /\ PeerIdle
    /\ DepsIdle
    /\ ObserverIdle
    /\ TreeIdle
    /\ ExtIdle

\* AnalyzePackage up to its first go statement; every early return ends the call
AnalyzePackage ==
    /\ acall.op = "AnalyzePackage"
    /\ amain = "idle"
    /\ Len(returned) < MaxCalls
    /\ LET e == AnalyzePackageEntry(acall.ctx, acall.pkgPath)
       IN IF e.err # "go on"
          THEN /\ returned' = Append(returned, e)
               /\ UNCHANGED <<amain, analysis>>
          ELSE /\ \E ord \in Perms(Loaded.Imports) : analysis' = WithImports(e.out, ord)
               /\ amain' = "spawn"
               /\ UNCHANGED returned
    /\ UNCHANGED <<acall, aspawned, awg, amu, collectors>>
    /\ UNCHANGED outsideAnalyze

\* one iteration of the loop over scope.Names(), then of the loop over
\* pkg.Syntax: wg.Add(1) and the go statement
Collect ==
    /\ amain = "spawn"
    /\ aspawned < Collectors
    /\ aspawned' = aspawned + 1
    /\ awg' = awg + 1
    /\ collectors' = Append(collectors,
                            IF aspawned < Len(Loaded.Scope)
                            THEN [kind |-> "name", idx |-> aspawned + 1, pos |-> 1, at |-> "run"]
                            ELSE [kind |-> "file", idx |-> aspawned + 1 - Len(Loaded.Scope),
                                  pos |-> 1, at |-> "run"])
    /\ UNCHANGED <<acall, amain, analysis, amu, returned>>
    /\ UNCHANGED outsideAnalyze

\* collector g has built a TypeInfo or FunctionInfo and takes mu
CollectorLock(g) ==
    /\ collectors[g].at = "run"
    /\ Pending(g) > 0
    /\ LockAnalysis(g)
    /\ collectors' = [collectors EXCEPT ![g].at = "locked"]
    /\ UNCHANGED <<acall, amain, analysis, aspawned, awg, returned>>
    /\ UNCHANGED outsideAnalyze

\* it appends, counts and calls mu.Unlock()
CollectorAppend(g) ==
    /\ collectors[g].at = "locked"
    /\ LET c == collectors[g]
       IN analysis' =
            IF c.kind = "name"
            THEN [analysis EXCEPT !.Types = Append(@, TypeInfoOf(Loaded.Scope[c.idx], Loaded)),
                                  !.Stats.Types = @ + 1]
            ELSE [analysis EXCEPT
                    !.Functions = Append(@, FunctionInfoOf(Loaded.Syntax[c.idx].Funcs[c.pos], Loaded)),
                    !.Stats.Functions = @ + 1]
    /\ amu' = Unlocked
    /\ collectors' = [collectors EXCEPT ![g].at = "run", ![g].pos = @ + 1]
    /\ UNCHANGED <<acall, amain, aspawned, awg, returned>>
    /\ UNCHANGED outsideAnalyze

\* the deferred wg.Done() of collector g
CollectorDone(g) ==
    /\ collectors[g].at = "run"
    /\ Pending(g) = 0
    /\ awg' = awg - 1
    /\ collectors' = [collectors EXCEPT ![g].at = "exited"]
    /\ UNCHANGED <<acall, amain, analysis, aspawned, amu, returned>>
    /\ UNCHANGED outsideAnalyze

\* AnalyzePackage without its wg.Wait(): it returns once the loops are over
AnalyzePackageReturnWithoutWait ==
    /\ amain = "spawn"
    /\ aspawned = Collectors
    /\ amu = Unlocked
    /\ returned' = Append(returned,
                          [err |-> "nil",
                           out |-> [analysis EXCEPT !.Stats.Files = Len(Loaded.CompiledGoFiles)]])
    /\ amain' = "idle"
    /\ analysis' = NoAnalysis
    /\ aspawned' = 0
    /\ awg' = 0
    /\ collectors' = <<>>
    /\ UNCHANGED <<acall, amu>>
    /\ UNCHANGED outsideAnalyze

\* wg.Wait() returns; Stats.Files is set under mu and the result returned
AnalyzePackageReturn ==
    /\ amain = "spawn"
    /\ aspawned = Collectors
    /\ awg = 0
    /\ amu = Unlocked
    /\ returned' = Append(returned,
                          [err |-> "nil",
                           out |-> [analysis EXCEPT !.Stats.Files = Len(Loaded.CompiledGoFiles)]])
    /\ amain' = "idle"
    /\ analysis' = NoAnalysis
    /\ aspawned' = 0
    /\ collectors' = <<>>
    /\ UNCHANGED <<acall, awg, amu>>
    /\ UNCHANGED outsideAnalyze

FindType ==
    /\ acall.op = "FindType"
    /\ Len(returned) < MaxCalls
    /\ returned' = Append(returned, FindTypeCall(acall.pkgPath, acall.name))
    /\ UNCHANGED <<acall, amain, analysis, aspawned, awg, amu, collectors>>
    /\ UNCHANGED outsideAnalyze

FindInterface ==
    /\ acall.op = "FindInterface"
    /\ Len(returned) < MaxCalls
    /\ \E ord \in Perms(DefsOf(acall.pkgPath)) :
          returned' = Append(returned, FindInterfaceCall(acall.pkgPath, acall.name, ord))
    /\ UNCHANGED <<acall, amain, analysis, aspawned, awg, amu, collectors>>
    /\ UNCHANGED outsideAnalyze

FindFunction ==
    /\ acall.op = "FindFunction"
    /\ Len(returned) < MaxCalls
    /\ \E ord \in Perms(DefsOf(acall.pkgPath)) :
          returned' = Append(returned, FindFunctionCall(acall.pkgPath, acall.name, ord))
    /\ UNCHANGED <<acall, amain, analysis, aspawned, awg, amu, collectors>>
    /\ UNCHANGED outsideAnalyze

NextAnalyze ==
    \/ AnalyzePackage
    \/ Collect
    \/ \E g \in 1..aspawned : CollectorLock(g)
    \/ \E g \in 1..aspawned : CollectorAppend(g)
    \/ \E g \in 1..aspawned : CollectorDone(g)
    \/ AnalyzePackageReturn
    \/ FindType
    \/ FindInterface
    \/ FindFunction

SpecAnalyze == InitAnalyze /\ [][NextAnalyze]_vars

-----------------------------------------------------------------------------
(* A second AnalyzePackage call on the same analyzer, at the same time.    *)
(* result, wg and mu are locals of AnalyzePackage: the call has its own.   *)

\* the directories two concurrent calls analyze
ConcurrentPaths == {"small"}

\* the state of a call that has not started; beside records that it appended
\* while a goroutine of the other call held that call's mu
NewPeer(pkgPath) ==
    [pkgPath |-> pkgPath, main |-> "idle", analysis |-> NoAnalysis,
     spawned |-> 0, wg |-> 0, mu |-> Unlocked, collectors |-> <<>>, out |-> <<>>,
     beside |-> FALSE]

PeerLive == DOMAIN peer # {}

\* the package the second call loaded
PeerLoaded == LoadDir(peer.pkgPath).pkgs[1]

PeerCollectors == Len(PeerLoaded.Scope) + Len(PeerLoaded.Syntax)

\* the appends collector g of the second call still has to make
PeerPending(g) ==
    LET c == peer.collectors[g]
    IN IF c.kind = "name"
       THEN IF PeerLoaded.Scope[c.idx].Kind = "TypeName" THEN 2 - c.pos ELSE 0
       ELSE Len(PeerLoaded.Syntax[c.idx].Funcs) + 1 - c.pos

InitAnalyzeConcurrent ==
    \/ InitAnalyze
    \/ /\ acall \in [op : {"AnalyzePackage"}, ctx : {"ctx"}, pkgPath : ConcurrentPaths, name : {""}]
       /\ amain = "idle"
       /\ analysis = NoAnalysis
       /\ aspawned = 0 /\ awg = 0 /\ amu = Unlocked
       /\ collectors = <<>>
       /\ returned = <<>>
       /\ \E pkgPath \in ConcurrentPaths : peer = NewPeer(pkgPath)
       /\ CycleIdle /\ ProjectIdle /\ CacheIdle
       /\ FileIdle
       /\ RWIdle
       /\ ExtIdle
       /\ TreeIdle
       /\ ObserverIdle
       /\ DepsIdle

\* AnalyzePackage up to its first go statement
PeerAnalyzePackage ==
    /\ PeerLive
    /\ peer.main = "idle"
    /\ LET e == AnalyzePackageEntry("ctx", peer.pkgPath)
       IN IF e.err # "go on"
          THEN peer' = [peer EXCEPT !.main = "done", !.out = <<e>>]
          ELSE \E ord \in Perms(PeerLoaded.Imports) :
                  peer' = [peer EXCEPT !.main = "spawn", !.analysis = WithImports(e.out, ord)]
    /\ UNCHANGED <<analyzeVars, outsidePeer>>

\* wg.Add(1) and the go statement of one loop iteration
PeerCollect ==
    /\ PeerLive
    /\ peer.main = "spawn"
    /\ peer.spawned < PeerCollectors
    /\ peer' = [peer EXCEPT
                  !.spawned = @ + 1,
                  !.wg = @ + 1,
                  !.collectors =
                      Append(@, IF peer.spawned < Len(PeerLoaded.Scope)
                                THEN [kind |-> "name", idx |-> peer.spawned + 1, pos |-> 1, at |-> "run"]
                                ELSE [kind |-> "file", idx |-> peer.spawned + 1 - Len(PeerLoaded.Scope),
                                      pos |-> 1, at |-> "run"])]
    /\ UNCHANGED <<analyzeVars, outsidePeer>>

\* mu.Lock() of the second call's mu by its collector g
PeerCollectorLock(g) ==
    /\ PeerLive
    /\ g \in 1..peer.spawned
    /\ peer.collectors[g].at = "run"
    /\ PeerPending(g) > 0
    /\ peer.mu = Unlocked
    /\ peer' = [peer EXCEPT !.mu = g, !.collectors[g].at = "locked"]
    /\ UNCHANGED <<analyzeVars, outsidePeer>>

\* the append, the count and mu.Unlock()
PeerCollectorAppend(g) ==
    /\ PeerLive
    /\ g \in 1..peer.spawned
    /\ peer.collectors[g].at = "locked"
    /\ LET c == peer.collectors[g]
       IN peer' =
            [peer EXCEPT
               !.analysis =
                   IF c.kind = "name"
                   THEN [@ EXCEPT !.Types = Append(@, TypeInfoOf(PeerLoaded.Scope[c.idx], PeerLoaded)),
                                  !.Stats.Types = @ + 1]
                   ELSE [@ EXCEPT
                           !.Functions = Append(@, FunctionInfoOf(PeerLoaded.Syntax[c.idx].Funcs[c.pos],
                                                                  PeerLoaded)),
                           !.Stats.Functions = @ + 1],
               !.mu = Unlocked,
               !.beside = @ \/ amu # Unlocked,
               !.collectors[g].at = "run",
               !.collectors[g].pos = @ + 1]
    /\ UNCHANGED <<analyzeVars, outsidePeer>>

\* the deferred wg.Done()
PeerCollectorDone(g) ==
    /\ PeerLive
    /\ g \in 1..peer.spawned
    /\ peer.collectors[g].at = "run"
    /\ PeerPending(g) = 0
    /\ peer' = [peer EXCEPT !.wg = @ - 1, !.collectors[g].at = "exited"]
    /\ UNCHANGED <<analyzeVars, outsidePeer>>

\* wg.Wait() returns; Stats.Files is set and the result returned
PeerAnalyzePackageReturn ==
    /\ PeerLive
    /\ peer.main = "spawn"
    /\ peer.spawned = PeerCollectors
    /\ peer.wg = 0
    /\ peer.mu = Unlocked
    /\ peer' = [peer EXCEPT
                  !.main = "done",
                  !.out = <<[err |-> "nil",
                             out |-> [peer.analysis EXCEPT
                                        !.Stats.Files = Len(PeerLoaded.CompiledGoFiles)]]>>]
    /\ UNCHANGED <<analyzeVars, outsidePeer>>

\* the goroutines the second call has started
PeerSpawned == IF PeerLive THEN 1..peer.spawned ELSE {}

NextAnalyzeConcurrent ==
    \/ AnalyzePackage
    \/ Collect
    \/ \E g \in 1..aspawned : CollectorLock(g)
    \/ \E g \in 1..aspawned : CollectorAppend(g)
    \/ \E g \in 1..aspawned : CollectorDone(g)
    \/ AnalyzePackageReturn
    \/ FindType
    \/ FindInterface
    \/ FindFunction
    \/ PeerAnalyzePackage
    \/ PeerCollect
    \/ \E g \in PeerSpawned : PeerCollectorLock(g)
    \/ \E g \in PeerSpawned : PeerCollectorAppend(g)
    \/ \E g \in PeerSpawned : PeerCollectorDone(g)
    \/ PeerAnalyzePackageReturn

SpecAnalyzeConcurrent == InitAnalyzeConcurrent /\ [][NextAnalyzeConcurrent]_vars

-----------------------------------------------------------------------------
(* Claims about the analyzer.                                              *)

\* C7: two calls of the same find/analyze operation with the same arguments
\* on unchanged sources return the same error and the same result (its time
\* fields apart), the Types, Functions and Imports lists in the same order.
C7_Idempotent ==
    \A i, j \in 1..Len(returned) : returned[i] = returned[j]

\* how many entries of the list l equal x
CountOf(l, x) == Cardinality({i \in 1..Len(l) : l[i] = x})

\* the function declarations of a package: file index and position in the file
FuncDecls(pkg) == {d \in (1..Len(pkg.Syntax)) \X (1..2) : d[2] <= Len(pkg.Syntax[d[1]].Funcs)}

\* the result r of an AnalyzePackage call whose goroutines ran on pkg lists
\* every type and every function declaration once, and counts what it lists
Complete(r, pkg) ==
    LET typeNames == {i \in 1..Len(pkg.Scope) : pkg.Scope[i].Kind = "TypeName"}
    IN /\ \A i \in typeNames : CountOf(r.Types, TypeInfoOf(pkg.Scope[i], pkg)) = 1
       /\ Len(r.Types) = Cardinality(typeNames)
       /\ \A d \in FuncDecls(pkg) :
             CountOf(r.Functions, FunctionInfoOf(pkg.Syntax[d[1]].Funcs[d[2]], pkg)) = 1
       /\ Len(r.Functions) = Cardinality(FuncDecls(pkg))
       /\ r.Stats.Types = Len(r.Types)
       /\ r.Stats.Functions = Len(r.Functions)
       /\ r.Stats.Files = Len(pkg.CompiledGoFiles)

\* the call returned what its goroutines collected (the package loaded
\* without errors)
Collected(e) == e.err = "nil" /\ e.out.Valid

\* C19: whatever the interleaving of its goroutines, and with a second
\* AnalyzePackage call running on the same analyzer at the same time, the
\* result AnalyzePackage returns after collecting holds each package-level
\* type once and each function declaration once, Stats.Types = len(Types),
\* Stats.Functions = len(Functions) and Stats.Files = the number of compiled
\* files.
C19_CollectsEachOnce ==
    /\ acall.op = "AnalyzePackage" =>
          \A i \in 1..Len(returned) :
             Collected(returned[i]) => Complete(returned[i].out, Loaded)
    /\ PeerLive =>
          \A i \in 1..Len(peer.out) :
             Collected(peer.out[i]) => Complete(peer.out[i].out, PeerLoaded)

\* two calls that ran at the same time have both returned, the second one
\* having appended while a goroutine of the first held the first's mu
C19_Witness ==
    /\ PeerLive
    /\ peer.beside
    /\ Len(returned) = 1 /\ amain = "idle" /\ Collected(returned[1])
    /\ Len(peer.out) = 1 /\ Collected(peer.out[1])

-----------------------------------------------------------------------------
(* ValidateFile and ValidatePackage: the directory and what the host tools *)
(* (go/parser, go/types, go/packages) make of its files                    *)

\* A Go source file as the tools see it: the error parser.ParseFile returns
\* ("" for nil), the nodes ast.Inspect visits, the errors conf.Check hands to
\* the Error callback, info.Uses and info.Defs, and what
\* packages.Load(cfg, "file=...") returns: its error ("" for nil) and, of
\* pkgs[0], the Errors and the Imports.
SourceFile(parseErr, nodes, typeErrors, uses, defs, loadErr, pkgErrors, imports) ==
    [ParseErr |-> parseErr, Nodes |-> nodes, TypeErrors |-> typeErrors, Uses |-> uses,
     Defs |-> defs, LoadErr |-> loadErr, PkgErrors |-> pkgErrors, Imports |-> imports]

\* the directory the validators are given, under baseDir
PkgDir == "pkg"
\* os.ReadDir lists a directory sorted by name
DirOrder == <<"README.md", "broken.go", "invalid.go", "lint.go", "sub", "valid.go">>
\* the entries that are directories
SubDirs == {"sub"}

\* filepath.Join(dir, name), filepath.Ext(name)
Join(dir, name) == dir \o "/" \o name
RECURSIVE LastDot(_, _)
LastDot(s, i) == IF i = 0 \/ SubSeq(s, i, i) = "." THEN i ELSE LastDot(s, i - 1)
Ext(name) == IF LastDot(name, Len(name)) = 0 THEN "" ELSE SubSeq(name, LastDot(name, Len(name)), Len(name))
isGoFile(name) == Ext(name) = ".go"

\* `func Valid() {}`
ValidGo == SourceFile("", <<FuncDecl("Valid", TRUE, 2)>>, <<>>, {},
                      {Def("test", "nil", "valid.go", 1), Def("Valid", "func", "valid.go", 2)},
                      "", <<>>, {})

\* `var x string = 123` in a function: it parses, and does not type-check
InvalidGo ==
    SourceFile("", <<FuncDecl("Invalid", TRUE, 2)>>,
               <<[Msg |-> "cannot use 123 (untyped int constant) as string value", Line |-> 3],
                 [Msg |-> "declared and not used: x", Line |-> 3]>>,
               {},
               {Def("Invalid", "func", "invalid.go", 2), Def("x", "var", "invalid.go", 3)},
               "", <<"invalid.go:3:17: cannot use 123 as string value">>, {})

\* `fmt.Println("Hello, World!"` without the closing parenthesis
BrokenGo ==
    SourceFile("broken.go:6:30: missing ',' before newline in argument list",
               <<ImportSpec("", "fmt", 3), FuncDecl("main", TRUE, 5),
                 [Node |-> "BadExpr", Name |-> "", Path |-> "", Body |-> FALSE, Line |-> 6]>>,
               <<>>, {}, {}, "", <<"broken.go:6:30: syntax error">>, {"fmt"})

\* a blank import, an import nothing uses, a third-party import, two
\* variables nothing reads
LintGo ==
    SourceFile("", <<ImportSpec("_", "embed", 3), ImportSpec("", "os", 4),
                     ImportSpec("", "github.com/x/y", 5), ImportSpec("", "golang.org/x/z", 6),
                     FuncDecl("Use", TRUE, 8)>>,
               <<>>,
               {[Pkg |-> "github.com/x/y", Name |-> "Y"], [Pkg |-> "golang.org/x/z", Name |-> "Z"]},
               {Def("Use", "func", "lint.go", 8), Def("a", "var", "lint.go", 9),
                Def("b", "var", "lint.go", 10)},
               "", <<>>, {"embed", "os", "github.com/x/y", "golang.org/x/z"})

\* the content of every Go file the directory may hold
Sources == [x \in {"broken.go", "invalid.go", "lint.go", "valid.go"} |->
               IF x = "broken.go" THEN BrokenGo
               ELSE IF x = "invalid.go" THEN InvalidGo
               ELSE IF x = "lint.go" THEN LintGo ELSE ValidGo]

\* the directories the validators can be pointed at: none, or one holding
\* any of the entries
Trees == {[Exists |-> FALSE, Entries |-> {}]}
            \cup [Exists : {TRUE}, Entries : SUBSET Range(DirOrder)]

\* os.Stat(filepath.Join(v.baseDir, path)) finds something
Exists(path) ==
    \/ path = PkgDir /\ tree.Exists
    \/ \E n \in tree.Entries : path = Join(PkgDir, n)

\* the file a path names
SourceAt(path) == Sources[CHOOSE n \in DOMAIN Sources : path = Join(PkgDir, n)]

\* the arguments the calls are tried with
FilePaths == {Join(PkgDir, n) : n \in DOMAIN Sources} \cup {Join(PkgDir, "nonexistent.go")}
PkgPaths == {PkgDir, "nonexistent"}
Contexts == {"nil", "background"}

\* a nil *ValidationResult
NilResult == [Nil |-> TRUE]

NoFileCall == [lib |-> "", op |-> "none", ctx |-> "", path |-> "", level |-> "",
               result |-> NilResult, err |-> ""]
FileCall(lib, op, ctx, path, lvl, res, e) ==
    [lib |-> lib, op |-> op, ctx |-> ctx, path |-> path, level |-> lvl, result |-> res, err |-> e]

-----------------------------------------------------------------------------
(* readgo2 DefaultValidator.ValidateFile and ValidatePackage (validator.go) *)

\* ValidationStats with the counter ValidateFile adds to at the strict level
NewFileStats == [c \in DOMAIN NewStats \cup {"DependencyErrors"} |-> 0]
\* &ValidationResult{Valid: true, ...}
NewFileResult == [NewResult EXCEPT !.Stats = NewFileStats]
\* what a call returns: the result (NilResult for nil) and the error ("" for nil)
Outcome(res, e) == [result |-> res, err |-> e]

\* `if _, err := os.Stat(absPath); os.IsNotExist(err)`
FileNotFoundOutcome(filePath) ==
    Outcome([NewFileResult EXCEPT
                !.Valid = FALSE,
                !.Errors = <<ProjectError("FILE_NOT_FOUND", "file not found: " \o filePath,
                                          filePath, 0)>>],
            "")

\* the syntax error is recorded and Valid is left as it was
SyntaxErrorResultStillValid(f, filePath) ==
    [NewFileResult EXCEPT
        !.Errors = <<ProjectError("SYNTAX_ERROR", f.ParseErr, filePath, 0)>>,
        !.Stats.SyntaxErrors = 1]

\* `if err != nil` after parser.ParseFile
SyntaxErrorResult(f, filePath) ==
    [NewFileResult EXCEPT
        !.Valid = FALSE,
        !.Errors = <<ProjectError("SYNTAX_ERROR", f.ParseErr, filePath, 0)>>,
        !.Stats.SyntaxErrors = 1]

\* the import declarations of a file, file.Imports
FileImportSpecs(f) == SelectSeq(f.Nodes, LAMBDA n : n.Node = "ImportSpec")

\* the standard level: conf.Check with its Error callback, then the loops
\* over file.Imports and over info.Defs, which walks the map in the order defOrd
TypeCheck(r, f, filePath, defOrd) ==
    LET typeErrs == [i \in 1..Len(f.TypeErrors) |->
                        ProjectError("TYPE_ERROR", f.TypeErrors[i].Msg, filePath,
                                     f.TypeErrors[i].Line)]
        unusedImps == SelectSeq(FileImportSpecs(f),
                                LAMBDA n : ~\E u \in f.Uses : u.Pkg = TrimQuotes(n.Path))
        unusedVars == SelectSeq(defOrd, LAMBDA d : d.Obj = "var" /\ [Pkg |-> "test", Name |-> d.Ident] \notin f.Uses)
    IN [r EXCEPT
           !.Errors = @ \o typeErrs,
           !.Valid = IF typeErrs # <<>> THEN FALSE ELSE @,
           !.Stats.TypeErrors = @ + Len(typeErrs),
           !.Warnings = @ \o [i \in 1..Len(unusedImps) |->
                                 ValidationWarning("UNUSED_IMPORT",
                                                   "unused import: " \o TrimQuotes(unusedImps[i].Path),
                                                   filePath, 0)]
                          \o [i \in 1..Len(unusedVars) |->
                                 ValidationWarning("UNUSED_VAR",
                                                   "unused variable: " \o unusedVars[i].Ident,
                                                   filePath, unusedVars[i].Line)],
           !.Stats.UnusedImports = @ + Len(unusedImps),
           !.Stats.UnusedVariables = @ + Len(unusedVars)]

\* the strict level: packages.Load(cfg, "file="+absPath), its error or the
\* errors of pkgs[0] as DEP_ERRORs, and the loop over pkgs[0].Imports, which
\* walks the map in the order impOrd
DependencyCheck(r, f, filePath, impOrd) ==
    LET depErrs == IF f.LoadErr # ""
                   THEN <<ProjectError("DEP_ERROR", f.LoadErr, filePath, 0)>>
                   ELSE [i \in 1..Len(f.PkgErrors) |->
                            ProjectError("DEP_ERROR", f.PkgErrors[i], filePath, 0)]
        external == IF f.LoadErr # "" THEN <<>> ELSE SelectSeq(impOrd, IsExternalDep)
    IN [r EXCEPT
           !.Errors = @ \o depErrs,
           !.Stats.DependencyErrors = @ + Len(depErrs),
           !.Valid = IF depErrs # <<>> THEN FALSE ELSE @,
           !.HasExternalDeps = IF external # <<>> THEN TRUE ELSE @,
           !.ExternalDeps = @ \o external]

\* ValidateFile past the parse, for one order of each map loop
CheckedResult(f, filePath, lvl, defOrd, impOrd) ==
    LET typed == IF LevelAtLeast(lvl, ValidationLevelStandard)
                 THEN TypeCheck(NewFileResult, f, filePath, defOrd) ELSE NewFileResult
        deps == IF lvl = ValidationLevelStrict
                THEN DependencyCheck(typed, f, filePath, impOrd) ELSE typed
    IN [deps EXCEPT !.Stats.FilesChecked = @ + 1]

\* everything ValidateFile(ctx, filePath, lvl) can return
ValidateFileOutcomes(ctx, filePath, lvl) ==
    IF ctx = "nil" THEN {Outcome(NilResult, "nil context")}
    ELSE IF ~Exists(filePath) THEN {FileNotFoundOutcome(filePath)}
    ELSE LET f == SourceAt(filePath)
         IN IF f.ParseErr # "" THEN {Outcome(SyntaxErrorResult(f, filePath), "")}
            ELSE {Outcome(CheckedResult(f, filePath, lvl, defOrd, impOrd), "") :
                    defOrd \in Perms(f.Defs), impOrd \in Perms(f.Imports)}

\* the body of ValidatePackage's loop for one file result
Aggregate(r, fileResult) ==
    [r EXCEPT
        !.Stats.FilesChecked = @ + 1,
        !.Stats.ErrorCount = @ + Len(fileResult.Errors),
        !.Stats.WarningCount = @ + Len(fileResult.Warnings),
        !.Stats.SyntaxErrors = @ + fileResult.Stats.SyntaxErrors,
        !.Stats.TypeErrors = @ + fileResult.Stats.TypeErrors,
        !.Stats.DependencyErrors = @ + fileResult.Stats.DependencyErrors,
        !.Errors = @ \o fileResult.Errors,
        !.Warnings = @ \o fileResult.Warnings,
        !.Valid = IF ~fileResult.Valid THEN FALSE ELSE @]

\* `for _, entry := range entries` from the entry list on, with r collected so far
RECURSIVE PackageLoop(_, _, _, _, _)
PackageLoop(entries, ctx, pkgPath, lvl, r) ==
    IF entries = <<>> THEN {Outcome(r, "")}
    ELSE IF Head(entries) \in SubDirs \/ ~isGoFile(Head(entries))
    THEN PackageLoop(Tail(entries), ctx, pkgPath, lvl, r)
    ELSE UNION {IF o.err # "" THEN {Outcome(NilResult, o.err)}
                ELSE PackageLoop(Tail(entries), ctx, pkgPath, lvl, Aggregate(r, o.result)) :
                  o \in ValidateFileOutcomes(ctx, Join(pkgPath, Head(entries)), lvl)}

\* everything ValidatePackage(ctx, pkgPath, lvl) can return
ValidatePackageOutcomes(ctx, pkgPath, lvl) ==
    IF ~Exists(pkgPath) THEN {Outcome(NilResult, "read package directory")}
    ELSE PackageLoop(SelectSeq(DirOrder, LAMBDA n : n \in tree.Entries), ctx, pkgPath,
                     IF lvl = "" THEN ValidationLevelStandard ELSE lvl, NewFileResult)

-----------------------------------------------------------------------------
(* readgo DefaultValidator.ValidateFile and ValidatePackage                *)

\* readgo's ValidationResult and ValidationWarning
ReadgoResult(path) == [Name |-> Base(path), Path |-> path, Errors |-> <<>>, Warnings |-> <<>>]
ReadgoWarning(message, file, line) ==
    [Type |-> "unused_import", Message |-> message, File |-> file, Line |-> line]

\* `if err != nil` after parser.ParseFile and after parser.ParseDir
ParseErrorResult(path, parseErr) ==
    [ReadgoResult(path) EXCEPT !.Errors = <<"parse error: " \o parseErr>>]

\* the ast.Inspect callback over the nodes of one file: a warning for every
\* blank import, an error for every BadExpr, BadStmt and BadDecl
Inspect(r, nodes, fileName) ==
    LET blanks == SelectSeq(nodes, LAMBDA n : n.Node = "ImportSpec" /\ n.Name = "_")
        bads == SelectSeq(nodes, LAMBDA n : n.Node \in {"BadExpr", "BadStmt", "BadDecl"})
    IN [r EXCEPT
           !.Warnings = @ \o [i \in 1..Len(blanks) |->
                                 ReadgoWarning("unused import: " \o blanks[i].Path, fileName,
                                               blanks[i].Line)],
           !.Errors = @ \o [i \in 1..Len(bads) |->
                               "syntax error at " \o fileName \o ":" \o ToString(bads[i].Line)]]

\* everything readgo's ValidateFile(ctx, filePath) can return
ReadgoValidateFileOutcomes(filePath) ==
    IF filePath = "" THEN {Outcome(NilResult, "empty file path")}
    ELSE IF ~Exists(filePath) THEN {Outcome(NilResult, "file access error")}
    ELSE LET f == SourceAt(filePath)
         IN IF f.ParseErr # "" THEN {Outcome(ParseErrorResult(filePath, f.ParseErr), "")}
            ELSE {Outcome(Inspect(ReadgoResult(filePath), f.Nodes, filePath), "")}

\* the files parser.ParseDir parses, in directory order
ParsedFiles == SelectSeq(DirOrder, LAMBDA n : n \in tree.Entries /\ n \notin SubDirs /\ isGoFile(n))

\* the loops over pkgs and pkg.Files, which walk the files in the order ord
RECURSIVE InspectFiles(_, _, _)
InspectFiles(r, ord, pkgPath) ==
    IF ord = <<>> THEN r
    ELSE InspectFiles(Inspect(r, Sources[Head(ord)].Nodes, Join(pkgPath, Head(ord))),
                      Tail(ord), pkgPath)

\* everything readgo's ValidatePackage(ctx, pkgPath) can return
ReadgoValidatePackageOutcomes(pkgPath) ==
    IF pkgPath = "" THEN {Outcome(NilResult, "empty package path")}
    ELSE IF ~Exists(pkgPath) THEN {Outcome(NilResult, "package access error")}
    ELSE LET failed == SelectSeq(ParsedFiles, LAMBDA n : Sources[n].ParseErr # "")
         IN IF failed # <<>>
            THEN {Outcome(ParseErrorResult(pkgPath, Sources[Head(failed)].ParseErr), "")}
            ELSE {Outcome(InspectFiles(ReadgoResult(pkgPath), ord, pkgPath), "") :
                    ord \in Perms(Range(ParsedFiles))}

-----------------------------------------------------------------------------
(* The calls.                                                              *)

InitFile ==
    /\ tree \in Trees
    /\ fcall = NoFileCall
    /\ CycleIdle /\ ProjectIdle /\ CacheIdle /\ AnalyzeIdle /\ RWIdle /\ PeerIdle /\ ExtIdle /\ TreeIdle /\ ObserverIdle /\ DepsIdle

ValidateFile ==
    /\ fcall = NoFileCall
    /\ \E ctx \in Contexts, filePath \in FilePaths, lvl \in ValidationLevels \cup {""} :
          \E o \in ValidateFileOutcomes(ctx, filePath, lvl) :
              fcall' = FileCall("readgo2", "ValidateFile", ctx, filePath, lvl, o.result, o.err)
    /\ UNCHANGED tree
    /\ UNCHANGED outsideFile

ValidatePackage ==
    /\ fcall = NoFileCall
    /\ \E ctx \in Contexts, pkgPath \in PkgPaths, lvl \in ValidationLevels \cup {""} :
          \E o \in ValidatePackageOutcomes(ctx, pkgPath, lvl) :
              fcall' = FileCall("readgo2", "ValidatePackage", ctx, pkgPath, lvl, o.result, o.err)
    /\ UNCHANGED tree
    /\ UNCHANGED outsideFile

ReadgoValidateFile ==
    /\ fcall = NoFileCall
    /\ \E ctx \in Contexts, filePath \in FilePaths \cup {""} :
          \E o \in ReadgoValidateFileOutcomes(filePath) :
              fcall' = FileCall("readgo", "ValidateFile", ctx, filePath, "", o.result, o.err)
    /\ UNCHANGED tree
    /\ UNCHANGED outsideFile

ReadgoValidatePackage ==
    /\ fcall = NoFileCall
    /\ \E ctx \in Contexts, pkgPath \in PkgPaths \cup {""} :
          \E o \in ReadgoValidatePackageOutcomes(pkgPath) :
              fcall' = FileCall("readgo", "ValidatePackage", ctx, pkgPath, "", o.result, o.err)
    /\ UNCHANGED tree
    /\ UNCHANGED outsideFile

\* the caller has looked at what the call returned and is ready for the next one
FileCallTaken ==
    /\ fcall # NoFileCall
    /\ fcall' = NoFileCall
    /\ UNCHANGED tree
    /\ UNCHANGED outsideFile

NextFile ==
    \/ ValidateFile
    \/ ValidatePackage
    \/ ReadgoValidateFile
    \/ ReadgoValidatePackage
    \/ FileCallTaken

SpecFile == InitFile /\ [][NextFile]_vars

-----------------------------------------------------------------------------
(* Claims about ValidateFile and ValidatePackage.                          *)

\* the Go files of the directory
GoFilesPresent == {n \in DOMAIN Sources : n \in tree.Entries}
HasSyntaxError(n) == Sources[n].ParseErr # ""
\* the file parses and the type checker reports errors for it
HasTypeError(n) == Sources[n].ParseErr = "" /\ Sources[n].TypeErrors # <<>>

\* the Go files the returned call was about: the one its path names, or
\* those of the directory its path names
FilesOfCall ==
    IF fcall.op = "ValidateFile"
    THEN {n \in GoFilesPresent : fcall.path = Join(PkgDir, n)}
    ELSE IF fcall.op = "ValidatePackage" /\ fcall.path = PkgDir /\ tree.Exists
    THEN GoFilesPresent ELSE {}

\* a call with a usable context has returned
ValidatorReturned ==
    /\ fcall.op \in {"ValidateFile", "ValidatePackage"}
    /\ fcall.lib = "readgo2" => fcall.ctx # "nil"

\* the level the returned call worked at: ValidatePackage turns "" into standard
EffectiveLevel ==
    IF fcall.op = "ValidatePackage" /\ fcall.level = "" THEN ValidationLevelStandard
    ELSE fcall.level

\* the diagnostics are in the result and the returned error is nil
DiagnosticsInResult ==
    /\ fcall.err = ""
    /\ fcall.result # NilResult
    /\ fcall.result.Errors # <<>>
    /\ fcall.lib = "readgo2" => ~fcall.result.Valid

\* C14 as stated: a ValidateFile or ValidatePackage call on an existing file
\* (or on a directory with such a file) that has a syntax error or a type
\* error returns a nil error and a result whose Errors list is non-empty
\* (and, in readgo2, Valid = false).
C14_DiagnosticsInResult ==
    (ValidatorReturned /\ \E n \in FilesOfCall : HasSyntaxError(n) \/ HasTypeError(n))
        => DiagnosticsInResult

\* C14 as amended: the same for a syntax error, at every level and in both
\* validators, and for a type error in readgo2 at the standard and the strict
\* level; a type error at readgo2's basic level, or in readgo, which only
\* parses, is in neither channel.
C14_DiagnosticsInResultAmended ==
    (ValidatorReturned
        /\ \E n \in FilesOfCall :
              \/ HasSyntaxError(n)
              \/ /\ HasTypeError(n)
                 /\ fcall.lib = "readgo2"
                 /\ LevelAtLeast(EffectiveLevel, ValidationLevelStandard))
        => DiagnosticsInResult

\* readgo2's ValidatePackage at the standard level on a directory that holds
\* the file with the syntax error and the file with the type error: a nil
\* error, and both diagnostics in the result
C14_Witness ==
    /\ fcall.lib = "readgo2" /\ fcall.op = "ValidatePackage"
    /\ fcall.level = ValidationLevelStandard
    /\ {"broken.go", "invalid.go"} \subseteq tree.Entries
    /\ fcall.err = ""
    /\ ~fcall.result.Valid
    /\ \E i \in 1..Len(fcall.result.Errors) : fcall.result.Errors[i].Code = "SYNTAX_ERROR"
    /\ \E i \in 1..Len(fcall.result.Errors) : fcall.result.Errors[i].Code = "TYPE_ERROR"

-----------------------------------------------------------------------------
(* readgo Cache, the RWMutex variant: types map[TypeCacheKey]*TypeInfo,    *)
(* hits, ttl, all behind mu sync.RWMutex                                   *)

\* how many goroutines call into the cache
MaxCallers == 2
\* how far the hit counter is followed
MaxHits == 2

\* the key the callers share
RWKeys == {[Package |-> "pkg", TypeName |-> "Reader", Kind |-> ""]}

\* the TTLs NewCache is given: a negative one, zero, a positive one
RWTTLs == {-1, 0, 1}

\* the zero sync.RWMutex: no writer, no readers
RWUnlocked == [writer |-> 0, readers |-> {}]

\* a goroutine outside every Cache method
NotCalling == [op |-> "none", pc |-> "idle", key |-> [Package |-> ""], info |-> "nil",
               found |-> FALSE, seen |-> 0, entries |-> 0]
\* a goroutine inside the method op, at the step named
Calling(op, at, key, info) == [NotCalling EXCEPT !.op = op, !.pc = at, !.key = key, !.info = info]

\* NewCache(ttl)
InitRWCache ==
    /\ rttl \in RWTTLs
    /\ types = <<>>
    /\ cacheHits = 0
    /\ rwmu = RWUnlocked
    /\ callers = [g \in 1..MaxCallers |-> NotCalling]
    /\ CycleIdle /\ ProjectIdle /\ CacheIdle /\ AnalyzeIdle /\ FileIdle /\ PeerIdle /\ ExtIdle /\ TreeIdle /\ ObserverIdle /\ DepsIdle

\* `if c == nil || c.ttl <= 0`
Disabled == rttl <= 0

\* GetType(key) is called: it returns at once when the cache is disabled
RWGetType(g, key) ==
    /\ callers[g].pc = "idle"
    /\ cacheHits < MaxHits
    /\ callers' = [callers EXCEPT ![g] =
                      Calling("GetType", IF Disabled THEN "returned" ELSE "rlock", key, "nil")]
    /\ UNCHANGED <<rttl, types, cacheHits, rwmu>>
    /\ UNCHANGED outsideRW

\* SetType(key, info) is called: it returns at once when the cache is disabled
RWSetType(g, key, info) ==
    /\ callers[g].pc = "idle"
    /\ callers' = [callers EXCEPT ![g] =
                      Calling("SetType", IF Disabled THEN "returned" ELSE "lock", key, info)]
    /\ UNCHANGED <<rttl, types, cacheHits, rwmu>>
    /\ UNCHANGED outsideRW

\* Stats() is called
RWStats(g) ==
    /\ callers[g].pc = "idle"
    /\ callers' = [callers EXCEPT ![g] = Calling("Stats", "rlock", [Package |-> ""], "nil")]
    /\ UNCHANGED <<rttl, types, cacheHits, rwmu>>
    /\ UNCHANGED outsideRW

\* c.mu.RLock()
RLock(g) ==
    /\ callers[g].pc = "rlock"
    /\ rwmu.writer = 0
    /\ rwmu' = [rwmu EXCEPT !.readers = @ \cup {g}]
    /\ callers' = [callers EXCEPT ![g].pc = "locked"]
    /\ UNCHANGED <<rttl, types, cacheHits>>
    /\ UNCHANGED outsideRW

\* GetType under the read lock: `info, ok := c.types[key]`, and for a hit the
\* load of c.hits that `c.hits++` begins with
Lookup(g) ==
    /\ callers[g].pc = "locked" /\ callers[g].op = "GetType"
    /\ callers' = [callers EXCEPT ![g] =
                      IF callers[g].key \in DOMAIN types
                      THEN [@ EXCEPT !.pc = "hit", !.found = TRUE, !.info = types[callers[g].key],
                                     !.seen = cacheHits]
                      ELSE [@ EXCEPT !.pc = "runlock"]]
    /\ UNCHANGED <<rttl, types, cacheHits, rwmu>>
    /\ UNCHANGED outsideRW

\* the store that `c.hits++` ends with
Hit(g) ==
    /\ callers[g].pc = "hit"
    /\ cacheHits' = callers[g].seen + 1
    /\ callers' = [callers EXCEPT ![g].pc = "runlock"]
    /\ UNCHANGED <<rttl, types, rwmu>>
    /\ UNCHANGED outsideRW

\* Stats under the read lock: c.hits and len(c.types)
ReadStats(g) ==
    /\ callers[g].pc = "locked" /\ callers[g].op = "Stats"
    /\ callers' = [callers EXCEPT ![g] =
                      [@ EXCEPT !.pc = "runlock", !.seen = cacheHits,
                                !.entries = Cardinality(DOMAIN types)]]
    /\ UNCHANGED <<rttl, types, cacheHits, rwmu>>
    /\ UNCHANGED outsideRW

\* the deferred c.mu.RUnlock() and the return, as far as the Cache goes
RUnlockStep(g) ==
    /\ callers[g].pc = "runlock"
    /\ rwmu' = [rwmu EXCEPT !.readers = @ \ {g}]
    /\ callers' = [callers EXCEPT ![g].pc = "returned"]
    /\ UNCHANGED <<rttl, types, cacheHits>>

\* the deferred c.mu.RUnlock() and the return
RUnlock(g) == RUnlockStep(g) /\ UNCHANGED outsideRW

\* c.mu.Lock()
WLock(g) ==
    /\ callers[g].pc = "lock"
    /\ rwmu = RWUnlocked
    /\ rwmu' = [rwmu EXCEPT !.writer = g]
    /\ callers' = [callers EXCEPT ![g].pc = "store"]
    /\ UNCHANGED <<rttl, types, cacheHits>>
    /\ UNCHANGED outsideRW

\* `c.types[key] = info`, the deferred c.mu.Unlock() and the return, as far
\* as the Cache goes
StoreStep(g) ==
    /\ callers[g].pc = "store"
    /\ types' = MapStore(types, callers[g].key, callers[g].info)
    /\ rwmu' = RWUnlocked
    /\ callers' = [callers EXCEPT ![g].pc = "returned"]
    /\ UNCHANGED <<rttl, cacheHits>>

\* `c.types[key] = info`, the deferred c.mu.Unlock() and the return
Store(g) == StoreStep(g) /\ UNCHANGED outsideRW

\* the caller has what the method returned
RWReturn(g) ==
    /\ callers[g].pc = "returned"
    /\ callers' = [callers EXCEPT ![g] = NotCalling]
    /\ UNCHANGED <<rttl, types, cacheHits, rwmu>>
    /\ UNCHANGED outsideRW

NextRWCache ==
    \E g \in 1..MaxCallers :
        \/ \E key \in RWKeys : RWGetType(g, key)
        \/ \E key \in RWKeys, info \in CacheValues["type"] : RWSetType(g, key, info)
        \/ RWStats(g)
        \/ RLock(g)
        \/ Lookup(g)
        \/ Hit(g)
        \/ ReadStats(g)
        \/ RUnlock(g)
        \/ WLock(g)
        \/ Store(g)
        \/ RWReturn(g)

SpecRWCache == InitRWCache /\ [][NextRWCache]_vars

-----------------------------------------------------------------------------
(* A client with one Cache, built by either NewCache.                      *)

\* the client's Cache is the sync.Map one; it is the RWMutex one
CacheLive == DOMAIN deleting # {}
RWLive == DOMAIN callers # {}

InitCaches == InitCache \/ InitRWCache

NextCaches ==
    \/ CacheLive /\ NextCache
    \/ RWLive /\ NextRWCache

SpecCaches == InitCaches /\ [][NextCaches]_vars

\* C17: with TTL = 0 the cache is disabled: whatever Set and Get calls are
\* made, on whatever keys and at whatever times, no Get returns found = true.
C17_ZeroTTLDisables ==
    /\ (CacheLive /\ ttl = 0) => ~(ret.op = "Get" /\ ret.found)
    /\ (RWLive /\ rttl = 0) =>
          \A g \in DOMAIN callers : ~(callers[g].op = "GetType" /\ callers[g].found)

\* the sync.Map cache with TTL 0: a Get made at the very instant of the Set
\* on its key has found the entry expired and returned not-found
C17_Witness ==
    /\ CacheLive
    /\ ttl = 0
    /\ now = 0
    /\ ret.op = "Get" /\ ret.expired /\ ~ret.found

-----------------------------------------------------------------------------
(* The RWMutex Cache beside a clock and an observer of its calls.          *)

\* the clock advances; no Cache method reads it
RWTick ==
    /\ rnow < MaxTime
    /\ rnow' = rnow + 1
    /\ UNCHANGED <<storedAt, foundGets>>
    /\ UNCHANGED <<rwVars, outsideObserved>>

\* Store, and the observer notes the time
StoreObserved(g) ==
    /\ StoreStep(g)
    /\ storedAt' = MapStore(storedAt, callers[g].key, rnow)
    /\ UNCHANGED <<rnow, foundGets>>
    /\ UNCHANGED outsideObserved

\* RUnlock, and the observer counts the GetType call that returns found = true
RUnlockObserved(g) ==
    /\ RUnlockStep(g)
    /\ foundGets' = IF callers[g].op = "GetType" /\ callers[g].found
                    THEN foundGets + 1 ELSE foundGets
    /\ UNCHANGED <<rnow, storedAt>>
    /\ UNCHANGED outsideObserved

NextRWCacheObserved ==
    \/ \E g \in 1..MaxCallers :
          \/ \E key \in RWKeys : RWGetType(g, key)
          \/ \E key \in RWKeys, info \in CacheValues["type"] : RWSetType(g, key, info)
          \/ RWStats(g)
          \/ RLock(g)
          \/ Lookup(g)
          \/ Hit(g)
          \/ ReadStats(g)
          \/ RUnlockObserved(g)
          \/ WLock(g)
          \/ StoreObserved(g)
          \/ RWReturn(g)
    \/ RWTick

SpecRWCacheObserved == InitRWCache /\ [][NextRWCacheObserved]_vars

\* C27: in the RWMutex cache an entry stored by SetType is no longer
\* returned by GetType once the cache's TTL has elapsed since it was stored:
\* a lookup made more than TTL after the store does not find the entry.
C27_ExpiredNotReturned ==
    [][\A g \in DOMAIN callers :
          (Lookup(g) /\ callers'[g].found)
              => rnow <= storedAt[callers[g].key] + rttl]_vars

\* a GetType call is between its call and its return
GetInFlight == \E g \in DOMAIN callers : callers[g].op = "GetType" /\ callers[g].pc # "returned"

\* C30: the hits value Stats reports equals the number of completed GetType
\* calls that returned found = true: a Stats call that holds the read lock
\* and is about to read, with no GetType call in progress, reads that number.
C30_HitsCountFoundGets ==
    (/\ RWLive
     /\ \E g \in DOMAIN callers : callers[g].op = "Stats" /\ callers[g].pc = "locked"
     /\ ~GetInFlight)
        => cacheHits = foundGets

-----------------------------------------------------------------------------
(* readgo2 DefaultValidator.ValidateExternalDependencies                   *)

\* how many checkDeps calls one ValidateExternalDependencies call can make
MaxTasks == 8

XApp == "testproject/app"
XA == "testproject/a"
XB == "testproject/b"
XD == "testproject/d"
XPkgs == {XApp, XA, XB, XD, GithubLib}

\* a loaded project: the Imports map of every package, the import
\* declarations of its one file, and the loader errors of the root package
Loaded3(imports, errors) ==
    [Imports |-> imports,
     Files |-> [p \in XPkgs |->
                  IF p = GithubLib THEN <<>>
                  ELSE LET written == SelectSeq(<<GithubLib, XA, XApp, XB, XD>>,
                                                LAMBDA q : q \in imports[p])
                       IN [i \in 1..Len(written) |-> Quote(written[i])]],
     Errors |-> errors]

\* app imports a and b, both import d, d imports a third-party package
XDiamond ==
    Loaded3([p \in XPkgs |-> IF p = XApp THEN {XA, XB}
                             ELSE IF p \in {XA, XB} THEN {XD}
                             ELSE IF p = XD THEN {GithubLib} ELSE {}], <<>>)
\* app imports a, a and b import each other
XCycle ==
    Loaded3([p \in XPkgs |-> IF p = XApp THEN {XA}
                             ELSE IF p = XA THEN {XB}
                             ELSE IF p = XB THEN {XA} ELSE {}], <<>>)
\* app imports a third-party package and a
XChain ==
    Loaded3([p \in XPkgs |-> IF p = XApp THEN {GithubLib, XA} ELSE {}], <<>>)
\* the loader reports errors for app
XBroken ==
    Loaded3([p \in XPkgs |-> {}], <<"app/app.go:3:1: expected declaration", "app/app.go:7:2: undefined: x">>)

XProjects == {XDiamond, XCycle, XChain, XBroken}

\* a checkDeps(p) call: where it stands, the imports its range loop has still
\* to visit, and whether the caller runs it itself or a goroutine does
Task(p, at, todo, inline) == [pkg |-> p, at |-> at, todo |-> todo, inline |-> inline]

InitExt ==
    /\ xload \in XProjects
    /\ xmain = "idle"
    /\ xvisited = {}
    /\ xwg = 0
    /\ xresult = NewResult
    /\ xerr = ""
    /\ xtasks = <<>>
    /\ xexpanded = [p \in XPkgs |-> 0]
    /\ CycleIdle /\ ProjectIdle /\ CacheIdle /\ AnalyzeIdle /\ FileIdle /\ RWIdle /\ PeerIdle
    /\ TreeIdle /\ ObserverIdle /\ DepsIdle

\* the early returns with an error: a nil context, a failing packages.Load,
\* an empty package list
ValidateExternalDependenciesFails ==
    /\ xmain = "idle"
    /\ \E e \in {"nil context", "load package", "no package found"} : xerr' = e
    /\ xmain' = "done"
    /\ UNCHANGED <<xload, xvisited, xwg, xresult, xtasks, xexpanded>>
    /\ UNCHANGED outsideExt

\* the call up to checkDeps(pkg): the PKG_ERROR return, or the loop over the
\* root's Imports map in the order ord
ValidateExternalDependencies ==
    /\ xmain = "idle"
    /\ xerr' = "nil"
    /\ IF Len(xload.Errors) > 0
       THEN /\ xresult' = PkgErrorResult("./app", xload.Errors)
            /\ xmain' = "done"
            /\ UNCHANGED xtasks
       ELSE /\ \E ord \in Perms(xload.Imports[XApp]) :
                  xresult' = [xresult EXCEPT
                                !.Imports = ord,
                                !.ExternalDeps = SelectSeq(ord, IsExternalDep),
                                !.HasExternalDeps = SelectSeq(ord, IsExternalDep) # <<>>]
            /\ xmain' = "checkDeps"
            /\ xtasks' = <<Task(XApp, "check", <<>>, TRUE)>>
    /\ UNCHANGED <<xload, xvisited, xwg, xexpanded>>
    /\ UNCHANGED outsideExt

Running == xmain \in {"checkDeps", "wait"}

\* `if p == nil || visited[p.PkgPath] { return }`: the read of the map
CheckVisited(g) ==
    /\ Running
    /\ xtasks[g].at = "check"
    /\ xtasks' = [xtasks EXCEPT ![g].at = IF xtasks[g].pkg \in xvisited THEN "return" ELSE "mark"]
    /\ UNCHANGED <<xload, xmain, xvisited, xwg, xresult, xerr, xexpanded>>
    /\ UNCHANGED outsideExt

\* `visited[p.PkgPath] = true`: the write of the map; the range loop over
\* p.Imports starts, in the order ord
MarkVisited(g) ==
    /\ Running
    /\ xtasks[g].at = "mark"
    /\ xvisited' = xvisited \cup {xtasks[g].pkg}
    /\ xexpanded' = [xexpanded EXCEPT ![xtasks[g].pkg] = @ + 1]
    /\ \E ord \in Perms(xload.Imports[xtasks[g].pkg]) :
          xtasks' = [xtasks EXCEPT ![g].at = "imports", ![g].todo = ord]
    /\ UNCHANGED <<xload, xmain, xwg, xresult, xerr>>
    /\ UNCHANGED outsideExt

\* one iteration of the loop over p.Imports: the append under mu for a
\* third-party path, wg.Add(1) and the go statement
VisitImport(g) ==
    /\ Running
    /\ xtasks[g].at = "imports"
    /\ xtasks[g].todo # <<>>
    /\ Len(xtasks) < MaxTasks
    /\ LET imp == Head(xtasks[g].todo)
       IN /\ xresult' = IF IsExternalDep(imp)
                        THEN [xresult EXCEPT !.HasExternalDeps = TRUE,
                                             !.ExternalDeps = Append(@, imp)]
                        ELSE xresult
          /\ xwg' = xwg + 1
          /\ xtasks' = Append([xtasks EXCEPT ![g].todo = Tail(@)], Task(imp, "check", <<>>, FALSE))
    /\ UNCHANGED <<xload, xmain, xvisited, xerr, xexpanded>>
    /\ UNCHANGED outsideExt

\* the loop over the files' import declarations: each third-party path is
\* appended to ExternalDeps and to Imports under mu
FileImports(g) ==
    /\ Running
    /\ xtasks[g].at = "imports"
    /\ xtasks[g].todo = <<>>
    /\ LET written == xload.Files[xtasks[g].pkg]
           paths == SelectSeq([i \in 1..Len(written) |-> TrimQuotes(written[i])], IsExternalDep)
       IN xresult' = IF paths = <<>> THEN xresult
                     ELSE [xresult EXCEPT !.HasExternalDeps = TRUE,
                                          !.ExternalDeps = @ \o paths,
                                          !.Imports = @ \o paths]
    /\ xtasks' = [xtasks EXCEPT ![g].at = "return"]
    /\ UNCHANGED <<xload, xmain, xvisited, xwg, xerr, xexpanded>>
    /\ UNCHANGED outsideExt

\* checkDeps returns: in a goroutine the deferred wg.Done() runs, in the
\* caller wg.Wait() comes next
CheckDepsReturn(g) ==
    /\ Running
    /\ xtasks[g].at = "return"
    /\ xtasks' = [xtasks EXCEPT ![g].at = "exited"]
    /\ IF xtasks[g].inline
       THEN xmain' = "wait" /\ UNCHANGED xwg
       ELSE xwg' = xwg - 1 /\ UNCHANGED xmain
    /\ UNCHANGED <<xload, xvisited, xresult, xerr, xexpanded>>
    /\ UNCHANGED outsideExt

\* two goroutines are at the map at the same time, one of them to write:
\* the runtime may stop the program with "fatal error: concurrent map read
\* and map write" or "concurrent map writes"
MapFault ==
    /\ Running
    /\ \E g, h \in 1..Len(xtasks) :
          g # h /\ xtasks[g].at = "mark" /\ xtasks[h].at \in {"check", "mark"}
    /\ xmain' = "fatal"
    /\ UNCHANGED <<xload, xvisited, xwg, xresult, xerr, xtasks, xexpanded>>
    /\ UNCHANGED outsideExt

\* wg.Wait() returns; the two de-duplications and the statistics
WaitAndReturn ==
    /\ xmain = "wait"
    /\ xwg = 0
    /\ xresult' = [xresult EXCEPT
                     !.ExternalDeps = Unique(@, {}),
                     !.Imports = Unique(@, {}),
                     \* len(pkg.CompiledGoFiles): the root package has one file
                     !.Stats.FilesChecked = 1,
                     !.Stats.ErrorCount = Len(xresult.Errors),
                     !.Stats.WarningCount = Len(xresult.Warnings)]
    /\ xmain' = "done"
    /\ UNCHANGED <<xload, xvisited, xwg, xerr, xtasks, xexpanded>>
    /\ UNCHANGED outsideExt

NextExt ==
    \/ ValidateExternalDependenciesFails
    \/ ValidateExternalDependencies
    \/ \E g \in 1..Len(xtasks) : CheckVisited(g)
    \/ \E g \in 1..Len(xtasks) : MarkVisited(g)
    \/ \E g \in 1..Len(xtasks) : VisitImport(g)
    \/ \E g \in 1..Len(xtasks) : FileImports(g)
    \/ \E g \in 1..Len(xtasks) : CheckDepsReturn(g)
    \/ MapFault
    \/ WaitAndReturn

SpecExtDeps == InitExt /\ [][NextExt]_vars

\* every goroutine that can take a step takes one in the end
SpecExtDepsFair == SpecExtDeps /\ WF_vars(NextExt)

-----------------------------------------------------------------------------
(* Claims about ValidateExternalDependencies.                              *)

\* the packages the root reaches along the Imports maps, the root included
RECURSIVE XReach(_, _)
XReach(S, k) ==
    LET next == S \cup UNION {xload.Imports[p] : p \in S}
    IN IF k = 0 \/ next = S THEN S ELSE XReach(next, k - 1)
XReachable == XReach({XApp}, Cardinality(XPkgs))

\* the import edges of the reachable graph
XEdges == {e \in XReachable \X XPkgs : e[2] \in xload.Imports[e[1]]}

\* the goroutines the call has started
Goroutines == {g \in 1..Len(xtasks) : ~xtasks[g].inline}

\* C23: under every interleaving each package is expanded at most once, so
\* at most one goroutine is started per import edge of the reachable graph.
C23_ExpandedOnce ==
    xmain # "idle" =>
        /\ \A p \in XPkgs : xexpanded[p] <= 1
        /\ Cardinality(Goroutines) <= Cardinality(XEdges)

NoDuplicates(l) == \A i, j \in 1..Len(l) : l[i] = l[j] => i = j

\* the call has returned a result that checkDeps filled
Completed == xmain = "done" /\ xerr = "nil" /\ xtasks # <<>>

\* wg counts the goroutines that have not called wg.Done(); when the call has
\* returned every goroutine has exited and the lists are complete and free
\* of duplicates
WaitedForAll ==
    /\ Running => xwg = Cardinality({g \in Goroutines : xtasks[g].at # "exited"})
    /\ Completed =>
          /\ \A g \in 1..Len(xtasks) : xtasks[g].at = "exited"
          /\ NoDuplicates(xresult.ExternalDeps)
          /\ NoDuplicates(xresult.Imports)
          /\ \A p \in xvisited :
                \A q \in xload.Imports[p] : IsExternalDep(q) => q \in Range(xresult.ExternalDeps)

\* C24: on every finite import graph, cyclic ones included, the call
\* terminates: the goroutines started are finitely many, each finishes,
\* wg.Wait() returns only when all of them are done, and the de-duplication
\* then runs on the complete lists.
C24_Terminates ==
    /\ <>(xmain = "done")
    /\ []WaitedForAll
    /\ [](Len(xtasks) < MaxTasks)

-----------------------------------------------------------------------------
(* readgo DefaultReader.GetFileTree                                        *)

\* how many include patterns, and how many exclude patterns, a call gives
MaxPatterns == 2

FileTypeAll == "all"
FileTypeGo == "go"
FileTypeTest == "test"

\* filepath.Match for patterns made of literal characters, `*` and `?`
RECURSIVE Match(_, _)
Match(pattern, name) ==
    LET rest(str) == SubSeq(str, 2, Len(str))
    IN IF pattern = "" THEN name = ""
       ELSE IF SubSeq(pattern, 1, 1) = "*"
       THEN \/ Match(rest(pattern), name)
            \/ name # "" /\ SubSeq(name, 1, 1) # "/" /\ Match(pattern, rest(name))
       ELSE IF name = "" THEN FALSE
       ELSE IF SubSeq(pattern, 1, 1) = "?"
       THEN SubSeq(name, 1, 1) # "/" /\ Match(rest(pattern), rest(name))
       ELSE SubSeq(pattern, 1, 1) = SubSeq(name, 1, 1) /\ Match(rest(pattern), rest(name))

\* strings.HasSuffix
HasSuffix(str, suffix) ==
    Len(suffix) <= Len(str) /\ SubSeq(str, Len(str) - Len(suffix) + 1, Len(str)) = suffix

\* filepath.Dir of a path relative to the working directory
Dir(path) ==
    IF LastSlash(path, Len(path)) = 0 THEN "." ELSE SubSeq(path, 1, LastSlash(path, Len(path)) - 1)

\* what os.FileInfo gives for a path: its name and whether it is a directory;
\* Rel is the path relative to the working directory
Entry(rel, name, isDir) == [Rel |-> rel, Name |-> name, IsDir |-> isDir]

\* the working directory /w/basic, in the order filepath.Walk visits it
\* (each directory before its content, names in byte order)
WalkOrder ==
    <<Entry(".", "basic", TRUE),
      Entry("README.md", "README.md", FALSE),
      Entry("gen.go", "gen.go", TRUE),
      Entry("gen.go/a.go", "a.go", FALSE),
      Entry("gen.go/b.txt", "b.txt", FALSE),
      Entry("main.go", "main.go", FALSE),
      Entry("sub", "sub", TRUE),
      Entry("sub/util.go", "util.go", FALSE),
      Entry("sub/util_test.go", "util_test.go", FALSE)>>

\* the names of the directory in byte order
NameOrder == <<"README.md", "a.go", "b.txt", "basic", "gen.go", "main.go", "sub", "util.go", "util_test.go">>

\* rel is the directory dir or lies below it
Below(dir, rel) == dir = "." \/ rel = dir \/ HasPrefix(rel, dir \o "/")

\* filepath.Clean of a root argument
CleanRoot(root) == IF root = "" THEN "." ELSE root

FileTreeNode(name, path, type) == [Name |-> name, Path |-> path, Type |-> type, Children |-> <<>>]
NoTree == FileTreeNode("", "", "")

\* sort.Slice of sortTree: directories first, then by name
SortChildren(children) ==
    LET ofType(isDir) ==
            SelectSeq(children, LAMBDA c : (c.Type = "directory") = isDir)
        byName(cs) ==
            LET names == SelectSeq(NameOrder, LAMBDA n : \E i \in 1..Len(cs) : cs[i].Name = n)
            IN [k \in 1..Len(names) |-> cs[CHOOSE i \in 1..Len(cs) : cs[i].Name = names[k]]]
    IN byName(ofType(TRUE)) \o byName(ofType(FALSE))

\* findParentNode(root, parentPath) is not nil
RECURSIVE HasNode(_, _)
HasNode(t, parentPath) ==
    \/ t.Path = parentPath
    \/ \E i \in 1..Len(t.Children) :
          t.Children[i].Type = "directory" /\ HasNode(t.Children[i], parentPath)

\* `parent.Children = append(parent.Children, node); sortTree(parent)` for the
\* node findParentNode returns: the first one in depth-first order
RECURSIVE AddChild(_, _, _)
AddChild(t, parentPath, node) ==
    IF t.Path = parentPath
    THEN [t EXCEPT !.Children = SortChildren(Append(@, node))]
    ELSE LET first == CHOOSE i \in 1..Len(t.Children) :
                         /\ t.Children[i].Type = "directory"
                         /\ HasNode(t.Children[i], parentPath)
                         /\ \A j \in 1..(i - 1) :
                               ~(t.Children[j].Type = "directory" /\ HasNode(t.Children[j], parentPath))
         IN [t EXCEPT !.Children[first] = AddChild(@, parentPath, node)]

TreeOptions(fileTypes, exclude, include) ==
    [FileTypes |-> fileTypes, ExcludePatterns |-> exclude, IncludePatterns |-> include]

\* what the walk function decides for an entry: "SkipDir", "skip" (return nil
\* without a node) or "node"
Decide(info, opts) ==
    IF \E i \in 1..Len(opts.ExcludePatterns) : Match(opts.ExcludePatterns[i], info.Name)
    THEN IF info.IsDir THEN "SkipDir" ELSE "skip"
    ELSE IF /\ Len(opts.IncludePatterns) > 0
            /\ ~\E i \in 1..Len(opts.IncludePatterns) : Match(opts.IncludePatterns[i], info.Name)
    THEN IF info.IsDir THEN "SkipDir" ELSE "skip"
    ELSE IF /\ ~info.IsDir
            /\ \/ opts.FileTypes = FileTypeGo /\ ~HasSuffix(info.Name, ".go")
               \/ opts.FileTypes = FileTypeTest /\ ~HasSuffix(info.Name, "_test.go")
    THEN "skip"
    ELSE "node"

\* filepath.Walk over the entries left, the walk function applied to each;
\* skipped holds the directories for which it returned filepath.SkipDir
RECURSIVE Walk(_, _, _, _, _)
Walk(entries, absRoot, opts, t, skipped) ==
    IF entries = <<>> THEN t
    ELSE LET info == Head(entries)
             others == Tail(entries)
         IN IF ~Below(absRoot, info.Rel) \/ \E d \in skipped : Below(d, info.Rel)
            THEN Walk(others, absRoot, opts, t, skipped)
            ELSE LET d == Decide(info, opts)
                     node == FileTreeNode(info.Name, info.Rel,
                                          IF info.IsDir THEN "directory" ELSE "file")
                 IN IF d = "SkipDir" THEN Walk(others, absRoot, opts, t, skipped \cup {info.Rel})
                    ELSE IF d = "skip" THEN Walk(others, absRoot, opts, t, skipped)
                    ELSE IF info.Rel # absRoot /\ HasNode(t, Dir(info.Rel))
                    THEN Walk(others, absRoot, opts, AddChild(t, Dir(info.Rel), node), skipped)
                    ELSE IF info.Rel = absRoot
                    THEN Walk(others, absRoot, opts, node, skipped)
                    ELSE Walk(others, absRoot, opts, t, skipped)

\* the name of the directory a root argument names
RootName(root) ==
    LET hits == SelectSeq(WalkOrder, LAMBDA e : e.Rel = CleanRoot(root)) IN hits[1].Name

\* GetFileTree(ctx, root, opts) of a reader whose working directory is the
\* absolute path of the directory above: the tree, or the error
GetFileTreeCall(root, opts) ==
    IF root = "" THEN [err |-> "invalid root path: empty path", tree |-> NoTree]
    ELSE IF ~\E i \in 1..Len(WalkOrder) : WalkOrder[i].Rel = CleanRoot(root)
    THEN [err |-> "lstat " \o root \o ": no such file or directory", tree |-> NoTree]
    ELSE [err |-> "nil",
          tree |-> Walk(WalkOrder, CleanRoot(root), opts,
                        FileTreeNode(RootName(root), root, "directory"), {})]

IncludePool == <<"*.go", "*.md", "*">>
ExcludePool == <<"*_test.go", "sub", "?.txt">>

\* the lists of at most MaxPatterns patterns of a pool, in the pool's order
PatternLists(pool) ==
    {SelectSeq(pool, LAMBDA q : q \in S) :
        S \in {T \in SUBSET Range(pool) : Cardinality(T) <= MaxPatterns}}

NoTreeCall == [op |-> "none", root |-> "", opts |-> TreeOptions("", <<>>, <<>>),
               err |-> "", tree |-> NoTree]

InitTree ==
    /\ tcall = NoTreeCall
    /\ CycleIdle /\ ProjectIdle /\ CacheIdle /\ AnalyzeIdle /\ FileIdle /\ RWIdle /\ PeerIdle
    /\ ExtIdle /\ ObserverIdle /\ DepsIdle

GetFileTree ==
    /\ tcall.op = "none"
    /\ \E root \in {".", "sub", "gen.go", "nonexistent", ""},
          fileTypes \in {"", FileTypeAll, FileTypeGo, FileTypeTest},
          exclude \in PatternLists(ExcludePool),
          include \in PatternLists(IncludePool) :
          \E c \in {GetFileTreeCall(root, TreeOptions(fileTypes, exclude, include))} :
             tcall' = [op |-> "GetFileTree", root |-> root,
                       opts |-> TreeOptions(fileTypes, exclude, include),
                       err |-> c.err, tree |-> c.tree]
    /\ UNCHANGED outsideTree

\* the caller drops the tree; the reader keeps nothing between calls
TreeTaken ==
    /\ tcall.op # "none"
    /\ tcall' = NoTreeCall
    /\ UNCHANGED outsideTree

NextTree == GetFileTree \/ TreeTaken

SpecTree == InitTree /\ [][NextTree]_vars

\* the paths of the file nodes of a tree
RECURSIVE FilesIn(_)
FilesIn(t) ==
    (IF t.Type = "file" THEN {t.Path} ELSE {})
        \cup UNION {FilesIn(t.Children[i]) : i \in 1..Len(t.Children)}

MatchesAny(patterns, name) == \E i \in 1..Len(patterns) : Match(patterns[i], name)

\* the files below the root of the call, at any depth
FilesBelowRoot ==
    {i \in 1..Len(WalkOrder) : ~WalkOrder[i].IsDir /\ Below(CleanRoot(tcall.root), WalkOrder[i].Rel)}

\* a directory from the root down to the file matches an exclude pattern
InExcludedDir(i) ==
    \E j \in 1..Len(WalkOrder) :
        /\ WalkOrder[j].IsDir
        /\ Below(CleanRoot(tcall.root), WalkOrder[j].Rel)
        /\ Below(WalkOrder[j].Rel, WalkOrder[i].Rel)
        /\ MatchesAny(tcall.opts.ExcludePatterns, WalkOrder[j].Name)

\* C26: a GetFileTree call with include patterns returns a tree that holds
\* every file below the root, at any depth, whose base name matches an
\* include pattern and no exclude pattern (and that lies in no excluded
\* directory), and no file that matches no include pattern.
C26_IncludedFilesInTree ==
    (/\ tcall.op = "GetFileTree" /\ tcall.err = "nil"
     /\ tcall.opts.IncludePatterns # <<>>
     /\ tcall.opts.FileTypes \in {"", FileTypeAll}) =>
        /\ \A i \in FilesBelowRoot :
              (/\ MatchesAny(tcall.opts.IncludePatterns, WalkOrder[i].Name)
               /\ ~MatchesAny(tcall.opts.ExcludePatterns, WalkOrder[i].Name)
               /\ ~InExcludedDir(i))
                  => WalkOrder[i].Rel \in FilesIn(tcall.tree)
        /\ \A i \in FilesBelowRoot :
              WalkOrder[i].Rel \in FilesIn(tcall.tree)
                  => MatchesAny(tcall.opts.IncludePatterns, WalkOrder[i].Name)

-----------------------------------------------------------------------------
(* readgo2 DefaultValidator.ValidateDependencies                           *)

AddDepErrorsStillValid(r, pkgPath, errs) ==
    [r EXCEPT !.Errors = @ \o [i \in 1..Len(errs) |->
                                 ValidationError("DEP_ERROR", errs[i], pkgPath, <<>>)],
              !.Stats.DependencyErrors = @ + Len(errs)]

\* the loop over pkg.Errors: a DEP_ERROR for each, and Valid = false
AddDepErrors(r, pkgPath, errs) ==
    [r EXCEPT !.Errors = @ \o [i \in 1..Len(errs) |->
                                 ValidationError("DEP_ERROR", errs[i], pkgPath, <<>>)],
              !.Stats.DependencyErrors = @ + Len(errs),
              !.Valid = @ /\ errs = <<>>]

\* the loop over the packages loaded
RECURSIVE RangeDeps(_, _, _)
RangeDeps(loaded, pkgPath, r) ==
    IF loaded = <<>> THEN r
    ELSE RangeDeps(Tail(loaded), pkgPath,
                   AddDepErrors([r EXCEPT !.Stats.FilesChecked = @ + Len(Head(loaded).CompiledGoFiles)],
                                pkgPath, Head(loaded).Errors))

NoDepsCall == [op |-> "none", pkgPath |-> "", loaded |-> <<>>, err |-> "", result |-> NewResult]

InitDeps ==
    /\ dcall = NoDepsCall
    /\ CycleIdle /\ ProjectIdle /\ CacheIdle /\ AnalyzeIdle /\ FileIdle /\ RWIdle /\ PeerIdle
    /\ ExtIdle /\ TreeIdle /\ ObserverIdle

\* ValidateDependencies(ctx, pkgPath): packages.Load fails, or the packages
\* it returns are ranged over
ValidateDependencies ==
    /\ dcall.op = "none"
    /\ \E pkgPath \in {".", "./broken"} :
          \/ dcall' = [op |-> "ValidateDependencies", pkgPath |-> pkgPath, loaded |-> <<>>,
                       err |-> "load packages", result |-> NewResult]
          \/ \E loaded \in Projects :
                dcall' = [op |-> "ValidateDependencies", pkgPath |-> pkgPath,
                          loaded |-> loaded, err |-> "",
                          result |-> RangeDeps(loaded, pkgPath,
                                               [NewResult EXCEPT !.Stats = NewFileStats])]
    /\ UNCHANGED outsideDeps

\* the caller has looked at what the call returned
DepsCallTaken ==
    /\ dcall.op # "none"
    /\ dcall' = NoDepsCall
    /\ UNCHANGED outsideDeps

NextDeps == ValidateDependencies \/ DepsCallTaken

-----------------------------------------------------------------------------
(* A client of the readgo2 validator, using one of its operations.         *)

FileLive == DOMAIN tree # {}
ProjectLive == DOMAIN result # {}
ExtLive == DOMAIN xload # {}
DepsLive == DOMAIN dcall # {}
CycleLive == ~FileLive /\ ~ProjectLive /\ ~ExtLive /\ ~DepsLive

InitValidator == InitFile \/ InitCycle \/ InitProject \/ InitExt \/ InitDeps

NextValidator ==
    \/ FileLive /\ NextFile
    \/ CycleLive /\ NextCycle
    \/ ProjectLive /\ NextProject
    \/ ExtLive /\ NextExt
    \/ DepsLive /\ NextDeps

SpecValidator == InitValidator /\ [][NextValidator]_vars

-----------------------------------------------------------------------------
(* The results of the readgo2 validator operations.                        *)

\* Stats.ErrorCount and Stats.WarningCount of a result agree with its lists
CountsAgree(r) ==
    /\ r.Stats.ErrorCount = Len(r.Errors)
    /\ r.Stats.WarningCount = Len(r.Warnings)

\* Valid is false exactly when Errors is not empty
ValidIffNoErrors(r) == r.Valid <=> r.Errors = <<>>

\* ValidateFile or ValidatePackage of the readgo2 validator has returned a result
FileResultReturned ==
    /\ DOMAIN fcall # {}
    /\ fcall # NoFileCall
    /\ fcall.lib = "readgo2"
    /\ fcall.err = ""

\* C29: in every result a readgo2 validator operation returns,
\* Stats.ErrorCount = len(Errors) and Stats.WarningCount = len(Warnings), on
\* the early returns (missing file, syntax error) as on normal completion.
C29_CountsMatchLists ==
    FileResultReturned => CountsAgree(fcall.result)

\* CheckCircularDependencies has returned a result
CycleResultReturned == vcall.op = "CheckCircularDependencies" /\ vcall.outcome = "result"
\* ValidateProject has returned a result
ProjectResultReturned == main = "done" /\ err = ""
\* ValidateExternalDependencies has returned a result
ExtResultReturned == xmain = "done" /\ xerr = ""
\* ValidateDependencies has returned a result
DepsResultReturned == DepsLive /\ dcall.op = "ValidateDependencies" /\ dcall.err = ""

====
